---- MODULE Spec2Model ----
(***************************************************************************)
(* A model of the bytecode virtual machine of crates/vm/src/lib.rs.        *)
(*                                                                         *)
(* Every runtime value is an Rc<RefCell<Object>>: the model keeps a heap   *)
(* of Object cells and the stack, the globals, the cons fields and the     *)
(* upvalue lists hold cell addresses (indices into heap), so that aliasing *)
(* of cells is visible.  Closures (Rc<RefCell<Lambda>>) live in a second   *)
(* heap, lambdas.  Address 0 stands for None.  pc is 0-based as in the     *)
(* source; TLA+ sequences are 1-based, so opcode pc is Code[pc + 1].       *)
(*                                                                         *)
(* A panic (unwrap on None, index out of bounds, todo!(), integer division *)
(* by zero, a RefCell borrow conflict) aborts the process: status becomes  *)
(* "panic" and nothing else happens afterwards.  An Err returned through   *)
(* the ? operator leaves the machine exactly as the handler left it.       *)
(*                                                                         *)
(* Integers are modelled without the 64-bit width: the programs below keep *)
(* every arithmetic result far inside the i64 range.                       *)
(***************************************************************************)
EXTENDS Integers, Sequences, FiniteSets, TLC

\* ------------------------------------------------------------------ bounds

\* PushInt operands of the arithmetic programs range over -MaxInt..MaxInt.
MaxInt == 3

\* How many times eval is entered on one Vm.
MaxEvals == 2

\* The top-level forms one compiler is given.
MaxForms == 3

\* ------------------------------------------------------------------ values

Abs(n) == IF n < 0 THEN -n ELSE n

Last(s) == s[Len(s)]

Front(s) == SubSeq(s, 1, Len(s) - 1)

\* Vec::truncate(len): no effect when len is not smaller than the length.
Truncate(s, len) == IF len < Len(s) THEN SubSeq(s, 1, len) ELSE s

\* enum Arity
Nullary == [kind |-> "Nullary", n |-> 0]

Nary(k) == [kind |-> "Nary", n |-> k]

Variadic == [kind |-> "Variadic", n |-> 0]

\* enum Object; one record shape for all variants, unused fields zeroed.
Obj(t, i, s, a, d, f) == [type |-> t, int |-> i, str |-> s, car |-> a, cdr |-> d, fn |-> f]

IntObj(i) == Obj("Int", i, "", 0, 0, 0)

SymbolObj(s) == Obj("Symbol", 0, s, 0, 0, 0)

StringObj(s) == Obj("String", 0, s, 0, 0, 0)

TrueObj == Obj("True", 0, "", 0, 0, 0)

NilObj == Obj("Nil", 0, "", 0, 0, 0)

ConsObj(a, d) == Obj("Cons", 0, "", a, d, 0)

FunctionObj(f) == Obj("Function", 0, "", 0, 0, f)

\* impl From<&Object> for Type: the tag of the variant.
TypeOf(o) == o.type

\* enum Error, and the Ok(Option<cell>) of eval.
NoResult == [kind |-> "None", cell |-> 0, expected |-> "", recieved |-> "", name |-> ""]

OkResult(c) == [NoResult EXCEPT !.kind = "Ok", !.cell = c]

TypeError(e, r) == [NoResult EXCEPT !.kind = "Type", !.expected = e, !.recieved = r]

NotFoundError(n) == [NoResult EXCEPT !.kind = "NotFound", !.name = n]

AssertError == [NoResult EXCEPT !.kind = "Assert", !.name = "assertion failed"]

\* enum OpCode; one record shape: n the usize / i64 / isize operand, k the
\* constant's hash, ar the arity, fr the upvalue's frame, ty the type.
Op(o, n, k, ar, fr, ty) == [op |-> o, n |-> n, k |-> k, ar |-> ar, fr |-> fr, ty |-> ty]

OpDefGlobal(k) == Op("DefGlobal", 0, k, Nullary, 0, "")

OpSetGlobal(k) == Op("SetGlobal", 0, k, Nullary, 0, "")

OpGetGlobal(k) == Op("GetGlobal", 0, k, Nullary, 0, "")

OpSetLocal(n) == Op("SetLocal", n, "", Nullary, 0, "")

OpGetLocal(n) == Op("GetLocal", n, "", Nullary, 0, "")

OpSetUpValue(n) == Op("SetUpValue", n, "", Nullary, 0, "")

OpGetUpValue(n) == Op("GetUpValue", n, "", Nullary, 0, "")

OpCall(n) == Op("Call", n, "", Nullary, 0, "")

OpTail(n) == Op("Tail", n, "", Nullary, 0, "")

OpReturn == Op("Return", 0, "", Nullary, 0, "")

OpLambda(ar, k) == Op("Lambda", 0, k, ar, 0, "")

OpCreateUpValue(fr, n) == Op("CreateUpValue", n, "", Nullary, fr, "")

OpPushSymbol(k) == Op("PushSymbol", 0, k, Nullary, 0, "")

OpPushInt(n) == Op("PushInt", n, "", Nullary, 0, "")

OpPushString(k) == Op("PushString", 0, k, Nullary, 0, "")

OpPushTrue == Op("PushTrue", 0, "", Nullary, 0, "")

OpPushNil == Op("PushNil", 0, "", Nullary, 0, "")

OpPop == Op("Pop", 0, "", Nullary, 0, "")

OpAdd == Op("Add", 0, "", Nullary, 0, "")

OpSub == Op("Sub", 0, "", Nullary, 0, "")

OpMul == Op("Mul", 0, "", Nullary, 0, "")

OpDiv == Op("Div", 0, "", Nullary, 0, "")

OpCar == Op("Car", 0, "", Nullary, 0, "")

OpCdr == Op("Cdr", 0, "", Nullary, 0, "")

OpCons == Op("Cons", 0, "", Nullary, 0, "")

OpList(n) == Op("List", n, "", Nullary, 0, "")

OpJmp(n) == Op("Jmp", n, "", Nullary, 0, "")

OpBranch(n) == Op("Branch", n, "", Nullary, 0, "")

OpIsType(ty) == Op("IsType", 0, "", Nullary, 0, ty)

OpAssert == Op("Assert", 0, "", Nullary, 0, "")

\* enum Constant
ConstSymbol(s) == [kind |-> "Symbol", str |-> s, ops |-> <<>>]

ConstString(s) == [kind |-> "String", str |-> s, ops |-> <<>>]

ConstOpcodes(ops) == [kind |-> "Opcodes", str |-> "", ops |-> ops]

\* ---------------------------------------------------------------- programs
\* The constant pool handed to load_constants and the opcode slices handed to
\* eval.  The hash of a constant is modelled by a name of the constant
\* (collision-free); every program below draws from the one pool.

BodyAdd2 == <<OpGetLocal(0), OpGetLocal(1), OpAdd, OpReturn>>

BodyMakeAdder == <<OpLambda(Nary(1), "ADDER"), OpCreateUpValue(0, 0), OpReturn>>

BodyAdder == <<OpGetLocal(0), OpGetUpValue(0), OpAdd, OpReturn>>

BodyOuter ==
    <<OpLambda(Nullary, "GETTER"), OpCreateUpValue(0, 0),
      OpLambda(Nary(1), "SETTER"), OpCreateUpValue(0, 0), OpPushInt(9), OpCall(1),
      OpPop, OpCall(0), OpGetLocal(0), OpList(2), OpReturn>>

BodySetter == <<OpGetLocal(0), OpSetUpValue(0), OpReturn>>

BodyGetter == <<OpGetUpValue(0), OpReturn>>

\* (lambda (a) (lambda (b) (lambda (c) a))): the innermost lambda captures a,
\* one hop outward of its parent.
BodyL1 == <<OpLambda(Nary(1), "L2"), OpReturn>>

BodyL2 == <<OpLambda(Nary(1), "L3"), OpCreateUpValue(1, 0), OpReturn>>

BodyL3 == <<OpGetUpValue(0), OpReturn>>

\* (lambda (a) ((lambda (b) (lambda (c) a)) 8))
BodyL1D == <<OpLambda(Nary(1), "L2"), OpPushInt(8), OpCall(1), OpReturn>>

\* (lambda (a) ((lambda (b) ((lambda (c) (lambda (d) a)) 6)) 8))
BodyL1T == <<OpLambda(Nary(1), "L2T"), OpPushInt(8), OpCall(1), OpReturn>>

BodyL2T == <<OpLambda(Nary(1), "L3T"), OpPushInt(6), OpCall(1), OpReturn>>

BodyL3T == <<OpLambda(Nary(1), "L3"), OpCreateUpValue(2, 0), OpReturn>>

\* (lambda (x) (if (nil? x) 0 (+ 1 (count (cdr x)))))
BodyCount ==
    <<OpGetLocal(0), OpIsType("Nil"), OpBranch(2), OpPushInt(0), OpJmp(6),
      OpPushInt(1), OpGetGlobal("count"), OpGetLocal(0), OpCdr, OpCall(1), OpAdd,
      OpReturn>>

BodyCarOf == <<OpGetLocal(0), OpCar, OpReturn>>

BodyZero == <<OpPushInt(0), OpReturn>>

BodySetL == <<OpPushInt(5), OpSetLocal(0), OpPop, OpGetLocal(0), OpReturn>>

\* A body without its trailing Return.
BodyNoRet == <<OpPushInt(0)>>

\* (lambda (a) ((lambda (b) (set! b 5) b) a) a): the local is handed to a
\* callee that stores to its parameter.
BodyAliasL ==
    <<OpLambda(Nary(1), "SETL"), OpGetLocal(0), OpCall(1), OpPop, OpGetLocal(0), OpReturn>>

\* (lambda (x) .. (cons x 1) .. (set! x 5) .. (car of the pair)): the pair is
\* kept on the stack.
BodyPairL ==
    <<OpGetLocal(0), OpPushInt(1), OpCons, OpPushInt(5), OpSetLocal(0), OpPop, OpCar,
      OpReturn>>

\* The same with (list x 1).
BodyListL ==
    <<OpGetLocal(0), OpPushInt(1), OpList(2), OpPushInt(5), OpSetLocal(0), OpPop, OpCar,
      OpReturn>>

Pool ==
    [k \in {"ADD2", "MAKE_ADDER", "ADDER", "OUTER", "SETTER", "GETTER", "L1", "L2",
            "L3", "L1D", "L1T", "L2T", "L3T", "COUNT", "CAROF", "ZERO", "SETL", "NORET",
            "PAIRL", "LISTL", "ALIASL",
            "x", "y", "foo", "count", "make-adder", "add10", "add20", "s"} |->
        CASE k = "ADD2" -> ConstOpcodes(BodyAdd2)
          [] k = "MAKE_ADDER" -> ConstOpcodes(BodyMakeAdder)
          [] k = "ADDER" -> ConstOpcodes(BodyAdder)
          [] k = "OUTER" -> ConstOpcodes(BodyOuter)
          [] k = "SETTER" -> ConstOpcodes(BodySetter)
          [] k = "GETTER" -> ConstOpcodes(BodyGetter)
          [] k = "L1" -> ConstOpcodes(BodyL1)
          [] k = "L2" -> ConstOpcodes(BodyL2)
          [] k = "L3" -> ConstOpcodes(BodyL3)
          [] k = "L1D" -> ConstOpcodes(BodyL1D)
          [] k = "L1T" -> ConstOpcodes(BodyL1T)
          [] k = "L2T" -> ConstOpcodes(BodyL2T)
          [] k = "L3T" -> ConstOpcodes(BodyL3T)
          [] k = "COUNT" -> ConstOpcodes(BodyCount)
          [] k = "CAROF" -> ConstOpcodes(BodyCarOf)
          [] k = "ZERO" -> ConstOpcodes(BodyZero)
          [] k = "SETL" -> ConstOpcodes(BodySetL)
          [] k = "NORET" -> ConstOpcodes(BodyNoRet)
          [] k = "PAIRL" -> ConstOpcodes(BodyPairL)
          [] k = "LISTL" -> ConstOpcodes(BodyListL)
          [] k = "ALIASL" -> ConstOpcodes(BodyAliasL)
          [] k = "s" -> ConstString("s")
          [] OTHER -> ConstSymbol(k)]

\* ----------------------------------------------------------------- emitter
\* crates/compiler/src/bytecode.rs: IL to opcode tables.

\* An IL node as the emitter reads it; one record shape for all variants:
\* n the index / integer / boolean, s the name / string / operator, ar and ups
\* the arity and upvalue descriptors of a Lambda, kids the child nodes.
IL(kind, n, s, ar, ups, kids) ==
    [kind |-> kind, n |-> n, s |-> s, ar |-> ar, ups |-> ups, kids |-> kids]

IlLambda(ar, ups, body) == IL("Lambda", 0, "", ar, ups, body)

IlDef(name, body) == IL("Def", 0, name, Nullary, <<>>, <<body>>)

IlIf(p, t, e) == IL("If", 0, "", Nullary, <<>>, <<p, t, e>>)

IlLocal(i) == IL("Local", i, "", Nullary, <<>>, <<>>)

IlUpValue(i) == IL("UpValue", i, "", Nullary, <<>>, <<>>)

IlGlobal(name) == IL("Global", 0, name, Nullary, <<>>, <<>>)

IlSymbol(s) == IL("Symbol", 0, s, Nullary, <<>>, <<>>)

IlString(s) == IL("String", 0, s, Nullary, <<>>, <<>>)

IlChar(c) == IL("Char", 0, c, Nullary, <<>>, <<>>)

IlInt(i) == IL("Int", i, "", Nullary, <<>>, <<>>)

IlBool(b) == IL("Bool", IF b THEN 1 ELSE 0, "", Nullary, <<>>, <<>>)

IlNil == IL("Nil", 0, "", Nullary, <<>>, <<>>)

IlList(exprs) == IL("List", 0, "", Nullary, <<>>, exprs)

IlFnCall(f, args) == IL("FnCall", 0, "", Nullary, <<>>, <<f>> \o args)

IlArith(operator, lhs, rhs) == IL("Arith", 0, operator, Nullary, <<>>, <<lhs, rhs>>)

IlIsType(ty, x) == IL("IsType", 0, ty, Nullary, <<>>, <<x>>)

IlAssert(x) == IL("Assert", 0, "", Nullary, <<>>, <<x>>)

\* struct UpValue {frame, index}
UpValue(frame, index) == [frame |-> frame, index |-> index]

\* An opcode as the emitter builds it: names and strings are carried in k,
\* the body table of a Lambda in body.
Em(o, n, k, ar, fr, body) ==
    [op |-> o, n |-> n, k |-> k, ar |-> ar, fr |-> fr, body |-> body]

Em0(o) == Em(o, 0, "", Nullary, 0, <<>>)

EmN(o, n) == Em(o, n, "", Nullary, 0, <<>>)

EmK(o, k) == Em(o, 0, k, Nullary, 0, <<>>)

\* OpCodeTable::new; panic records a todo!() reached while emitting into it.
NewTable == [panic |-> FALSE, ops |-> <<>>]

\* OpCodeTable::push
TablePush(t, op) == [t EXCEPT !.ops = Append(@, op)]

\* OpCodeTable::len
TableLen(t) == Len(t.ops)

Todo(t) == [t EXCEPT !.panic = TRUE]

RECURSIVE compile(_, _)

\* for expr in exprs { compile(expr, opcodes)? }
RECURSIVE compile_each(_, _)

compile_each(exprs, t) ==
    IF exprs = <<>> \/ t.panic
    THEN t
    ELSE compile_each(Tail(exprs), compile(Head(exprs), t))

compile_varref(varref, t) ==
    TablePush(t, CASE varref.kind = "Local" -> EmN("GetLocal", varref.n)
                   [] varref.kind = "UpValue" -> EmN("GetUpValue", varref.n)
                   [] varref.kind = "Global" -> EmK("GetGlobal", varref.s))

compile_constant(constant, t) ==
    TablePush(t, CASE constant.kind = "Symbol" -> EmK("PushSymbol", constant.s)
                   [] constant.kind = "String" -> EmK("PushString", constant.s)
                   [] constant.kind = "Char" -> EmK("PushChar", constant.s)
                   [] constant.kind = "Int" -> EmN("PushInt", constant.n)
                   [] constant.kind = "Bool" -> EmN("PushBool", constant.n)
                   [] constant.kind = "Nil" -> Em0("PushNil"))

\* The CreateUpValue opcodes pushed by the loop over lambda.upvalues.
CreateUpValues(ups) == [i \in 1..Len(ups) |-> Em("CreateUpValue", ups[i].index, "", Nullary, ups[i].frame, <<>>)]

compile_lambda_upvalues_first(lambda, t) ==
    LET lambda_opcode_table == TablePush(compile_each(lambda.kids, NewTable), Em0("Return"))
    IN  IF lambda_opcode_table.panic
        THEN Todo(t)
        ELSE [t EXCEPT !.ops = @ \o CreateUpValues(lambda.ups)
                                 \o <<Em("Lambda", 0, "", lambda.ar, 0, lambda_opcode_table.ops)>>]

compile_lambda(lambda, t) ==
    LET lambda_opcode_table == TablePush(compile_each(lambda.kids, NewTable), Em0("Return"))
    IN  IF lambda_opcode_table.panic
        THEN Todo(t)
        ELSE [t EXCEPT !.ops = Append(@, Em("Lambda", 0, "", lambda.ar, 0, lambda_opcode_table.ops))
                                 \o CreateUpValues(lambda.ups)]

compile_if_short_branch(if, t) ==
    LET p == compile(if.kids[1], t)
        then_opcodes == compile(if.kids[2], NewTable)
        else_opcodes == compile(if.kids[3], NewTable)
    IN  IF p.panic \/ then_opcodes.panic \/ else_opcodes.panic
        THEN Todo(t)
        ELSE [t EXCEPT !.ops = p.ops \o <<EmN("Branch", TableLen(then_opcodes))>>
                                 \o then_opcodes.ops
                                 \o <<EmN("Jmp", TableLen(else_opcodes))>>
                                 \o else_opcodes.ops]

\* compile_if gone wrong: the Jmp over the else body counts itself.
compile_if_long_jmp(if, t) ==
    LET p == compile(if.kids[1], t)
        then_opcodes == compile(if.kids[2], NewTable)
        else_opcodes == compile(if.kids[3], NewTable)
    IN  IF p.panic \/ then_opcodes.panic \/ else_opcodes.panic
        THEN Todo(t)
        ELSE [t EXCEPT !.ops = p.ops \o <<EmN("Branch", TableLen(then_opcodes) + 1)>>
                                 \o then_opcodes.ops
                                 \o <<EmN("Jmp", TableLen(else_opcodes) + 1)>>
                                 \o else_opcodes.ops]

compile_if(if, t) ==
    LET p == compile(if.kids[1], t)
        then_opcodes == compile(if.kids[2], NewTable)
        else_opcodes == compile(if.kids[3], NewTable)
    IN  IF p.panic \/ then_opcodes.panic \/ else_opcodes.panic
        THEN Todo(t)
        ELSE [t EXCEPT !.ops = p.ops \o <<EmN("Branch", TableLen(then_opcodes) + 1)>>
                                 \o then_opcodes.ops
                                 \o <<EmN("Jmp", TableLen(else_opcodes))>>
                                 \o else_opcodes.ops]

compile_def(def, t) ==
    LET body == compile(def.kids[1], t)
    IN  IF body.panic THEN body ELSE TablePush(body, EmK("DefGlobal", def.s))

compile_arithmetic_operation(arithmetic_op, t) ==
    LET operands == compile_each(arithmetic_op.kids, t)
    IN  IF operands.panic THEN operands ELSE TablePush(operands, Em0(arithmetic_op.s))

compile_list(list, t) ==
    LET exprs == compile_each(list.kids, t)
    IN  IF exprs.panic THEN exprs ELSE TablePush(exprs, EmN("List", Len(list.kids)))

compile_fncall(fncall, t) ==
    LET pushed == compile_each(fncall.kids, t)
    IN  IF pushed.panic THEN pushed ELSE TablePush(pushed, EmN("Call", Len(fncall.kids) - 1))

\* bytecode::compile: every IL variant without an arm ends in todo!().
compile(il, t) ==
    CASE il.kind = "Lambda" -> compile_lambda(il, t)
      [] il.kind = "Def" -> compile_def(il, t)
      [] il.kind = "If" -> compile_if(il, t)
      [] il.kind \in {"Local", "UpValue", "Global"} -> compile_varref(il, t)
      [] il.kind \in {"Symbol", "String", "Char", "Int", "Bool", "Nil"} -> compile_constant(il, t)
      [] il.kind = "List" -> compile_list(il, t)
      [] il.kind = "FnCall" -> compile_fncall(il, t)
      [] il.kind = "Arith" -> compile_arithmetic_operation(il, t)
      [] OTHER -> Todo(t)

\* The constant pool side of emission: a string, a symbol or a body table is
\* stored in the pool and the opcode carries its hash.  PushChar and
\* PushBool(false) have no opcode in the Vm.
HasKey(c) == \E k \in DOMAIN Pool : Pool[k] = c

KeyOf(c) == CHOOSE k \in DOMAIN Pool : Pool[k] = c

RECURSIVE Link(_)

RECURSIVE Linkable(_)

LinkOp(e) ==
    CASE e.op = "Lambda" -> OpLambda(e.ar, KeyOf(ConstOpcodes(Link(e.body))))
      [] e.op = "CreateUpValue" -> OpCreateUpValue(e.fr, e.n)
      [] e.op = "PushString" -> OpPushString(KeyOf(ConstString(e.k)))
      [] e.op \in {"PushSymbol", "GetGlobal", "DefGlobal"} ->
            Op(e.op, 0, KeyOf(ConstSymbol(e.k)), Nullary, 0, "")
      [] e.op = "PushBool" -> OpPushTrue
      [] OTHER -> Op(e.op, e.n, "", Nullary, 0, "")

LinkableOp(e) ==
    CASE e.op = "Lambda" -> Linkable(e.body) /\ HasKey(ConstOpcodes(Link(e.body)))
      [] e.op = "PushString" -> HasKey(ConstString(e.k))
      [] e.op \in {"PushSymbol", "GetGlobal", "DefGlobal"} -> HasKey(ConstSymbol(e.k))
      [] e.op = "PushBool" -> e.n = 1
      [] e.op = "PushChar" -> FALSE
      [] OTHER -> TRUE

Link(ops) == [i \in 1..Len(ops) |-> LinkOp(ops[i])]

Linkable(ops) == \A i \in 1..Len(ops) : LinkableOp(ops[i])

ArithOps == {"Add", "Sub", "Mul", "Div"}

IntVals == (0 - MaxInt) .. MaxInt

\* -------------------------------------------------------- compilation units
\* The IL forms handed to the emitter, one sequence of top-level forms each.

IlTrue == IlBool(TRUE)

IlAdd2 == IlLambda(Nary(2), <<>>, <<IlArith("Add", IlLocal(0), IlLocal(1))>>)

IlAdder == IlLambda(Nary(1), <<UpValue(0, 0)>>, <<IlArith("Add", IlLocal(0), IlUpValue(0))>>)

IlMakeAdder == IlLambda(Nary(1), <<>>, <<IlAdder>>)

\* (lambda (a b) (lambda () (+ b a))): two captures, declared b then a.
IlSwap ==
    IlLambda(Nary(2), <<>>,
             <<IlLambda(Nullary, <<UpValue(0, 1), UpValue(0, 0)>>,
                        <<IlArith("Add", IlUpValue(0), IlUpValue(1))>>)>>)

\* (lambda (a) (lambda (b) (lambda (c) a))), the middle lambda passing a through.
IlPass ==
    IlLambda(Nary(1), <<>>,
             <<IlLambda(Nary(1), <<UpValue(0, 0)>>,
                        <<IlLambda(Nary(1), <<UpValue(1, 0), UpValue(0, 0)>>,
                                   <<IlUpValue(1), IlUpValue(0)>>)>>)>>)

\* A lambda with an empty body.
IlEmpty == IlLambda(Nullary, <<>>, <<>>)

LambdaUnits ==
    {<<IlFnCall(IlAdd2, <<IlInt(3), IlInt(4)>>)>>,
     <<IlDef("make-adder", IlMakeAdder),
       IlFnCall(IlFnCall(IlGlobal("make-adder"), <<IlInt(10)>>), <<IlInt(5)>>)>>,
     <<IlSwap>>,
     <<IlPass>>,
     <<IlEmpty>>,
     <<IlList(<<IlAdder, IlSwap, IlAdder>>)>>,
     <<IlIf(IlTrue, IlAdder, IlAdd2), IlAdder>>,
     <<IlAdder, IlAdder>>}

Preds == {IlTrue, IlNil}

Arms == {IlInt(100), IlArith("Add", IlInt(1), IlInt(2)), IlList(<<IlInt(1), IlInt(2), IlInt(3)>>)}

InnerIfs == {IlIf(q, IlInt(1), IlArith("Mul", IlInt(2), IlInt(3))) : q \in Preds}

PredIfs == {IlIf(q, IlNil, IlTrue) : q \in Preds}

IfForms ==
    {IlIf(p, t, e) : p \in Preds, t \in Arms, e \in Arms}
        \cup {IlIf(p, t, e) : p \in Preds \cup PredIfs,
                              t \in {IlInt(100)} \cup InnerIfs,
                              e \in {IlInt(200)} \cup InnerIfs}

IfUnits ==
    {<<f>> : f \in IfForms}
        \cup {<<IlArith("Add", IlInt(5), IlIf(p, t, IlInt(200))), IlInt(0)>> :
                 p \in Preds, t \in Arms}

\* Forms that evaluate to a value of each type.
Values ==
    {IlInt(1), IlSymbol("foo"), IlString("s"), IlNil, IlTrue,
     IlList(<<IlInt(1), IlInt(2)>>), IlAdd2}

DefValues == {IlInt(i) : i \in IntVals} \cup Values

DefUnits ==
    {<<IlDef("x", v), IlGlobal("x")>> : v \in DefValues}
        \cup {<<IlDef("x", IlInt(1)), IlDef("x", v), IlGlobal("x")>> : v \in DefValues}

\* Forms for which the emitter has no arm, or the Vm no opcode.
OtherUnits ==
    {<<IlAssert(IlTrue)>>, <<IlInt(1), IlIsType("Int", IlInt(1))>>, <<IlChar("c")>>,
     <<IlBool(FALSE)>>}

Units == LambdaUnits \cup IfUnits \cup DefUnits \cup OtherUnits

\* A program: its name and, for the arithmetic family (op a b), the operator
\* and the two integer literals.
Prog(name) == [name |-> name, op |-> "", a |-> 0, b |-> 0, il |-> <<>>]

ArithProg(op, a, b) == [name |-> "arith", op |-> op, a |-> a, b |-> b, il |-> <<>>]

\* (car (cons v lst)) and (cdr (cons v lst)): the code of v, the code of lst,
\* Cons and the selector; (assert v): the code of v and Assert.
ConsProg(sel, v, lst) == [name |-> "conscar", op |-> sel, a |-> 0, b |-> 0, il |-> <<v, lst>>]

AssertProg(v) == [name |-> "assertv", op |-> "", a |-> 0, b |-> 0, il |-> <<v>>]

\* The code of v, then Branch(1) over one of two pushes.
BranchProg(v) == [name |-> "branchv", op |-> "", a |-> 0, b |-> 0, il |-> <<v>>]

\* The code of v, then IsType(ty).
IsTypeProg(v, ty) == [name |-> "istypev", op |-> ty, a |-> 0, b |-> 0, il |-> <<v>>]

\* The type tags the istypev programs ask for.
AskedTypes == {"Int", "Nil", "Cons", "Function", "Predicate"}

\* A program given as IL forms, to be emitted.
IlProg(forms) == [name |-> "il", op |-> "", a |-> 0, b |-> 0, il |-> forms]

PlainNames ==
    {"def", "add2", "adder", "share", "nested_escaped", "nested_direct",
     "nested_deep", "count", "err_notfound", "err_deep", "err_assert",
     "ok_assert", "err_branch", "err_call", "err_setglobal", "err_add",
     "ar_nullary", "ar_nary0", "ar_nary1", "ar_nary3", "variadic", "misc",
     "setlocal", "carcons", "tail", "again", "getx", "noret", "pair_setlocal",
     "list_setlocal", "pair_setglobal", "list0", "list1", "list3", "jmp_back", "jmp_far",
     "jmp_zero", "alias_local", "alias_global"}

Programs ==
    {Prog(n) : n \in PlainNames}
        \cup {ArithProg(op, a, b) : op \in ArithOps, a \in IntVals, b \in IntVals}
        \cup {ConsProg(sel, v, lst) : sel \in {"Car", "Cdr"}, v \in Values, lst \in Values}
        \cup {AssertProg(v) : v \in Values}
        \cup {BranchProg(v) : v \in Values}
        \cup {IsTypeProg(v, ty) : v \in Values, ty \in AskedTypes}

\* The programs a later eval on the same Vm is given.
FollowUps == {Prog("def"), Prog("getx"), Prog("again"), Prog("add2"), Prog("count")}

\* The opcode slice of a program, as the emitter lays code out: a function
\* call is [f, args, Call(n)], an arithmetic operation [lhs, rhs, OP].
OpcodesOf(p) ==
    CASE p.name = "arith" -> <<OpPushInt(p.a), OpPushInt(p.b), Op(p.op, 0, "", Nullary, 0, "")>>
      [] p.name = "conscar" ->
            Link(compile_each(p.il, NewTable).ops) \o <<OpCons, Op(p.op, 0, "", Nullary, 0, "")>>
      [] p.name = "assertv" -> Link(compile_each(p.il, NewTable).ops) \o <<OpAssert>>
      [] p.name = "branchv" ->
            Link(compile_each(p.il, NewTable).ops) \o <<OpBranch(1), OpPushInt(10), OpPushInt(20)>>
      [] p.name = "istypev" -> Link(compile_each(p.il, NewTable).ops) \o <<OpIsType(p.op)>>
      [] p.name = "pair_setlocal" -> <<OpLambda(Nary(1), "PAIRL"), OpPushInt(7), OpCall(1)>>
      [] p.name = "list_setlocal" -> <<OpLambda(Nary(1), "LISTL"), OpPushInt(7), OpCall(1)>>
      [] p.name = "pair_setglobal" ->
            <<OpPushInt(7), OpDefGlobal("x"), OpPop, OpGetGlobal("x"), OpPushInt(1), OpCons,
              OpPushInt(5), OpSetGlobal("x"), OpPop, OpCar>>
      [] p.name = "alias_local" -> <<OpLambda(Nary(1), "ALIASL"), OpPushInt(7), OpCall(1)>>
      [] p.name = "alias_global" ->
            <<OpPushInt(7), OpDefGlobal("x"), OpPop, OpLambda(Nary(1), "SETL"),
              OpGetGlobal("x"), OpCall(1), OpPop, OpGetGlobal("x")>>
      [] p.name = "list0" -> <<OpPushInt(1), OpList(0)>>
      [] p.name = "list1" -> <<OpPushInt(1), OpPushInt(2), OpList(1)>>
      [] p.name = "list3" -> <<OpPushInt(1), OpPushSymbol("foo"), OpPushNil, OpList(3)>>
      [] p.name = "jmp_back" ->
            <<OpPushNil, OpBranch(2), OpPushInt(1), OpJmp(1), OpJmp(-3)>>
      [] p.name = "jmp_far" -> <<OpPushInt(1), OpJmp(-5), OpPushInt(2)>>
      [] p.name = "jmp_zero" -> <<OpPushInt(1), OpJmp(0), OpPushInt(2)>>
      [] p.name = "def" -> <<OpPushInt(42), OpDefGlobal("x"), OpGetGlobal("x")>>
      [] p.name = "getx" -> <<OpGetGlobal("x")>>
      [] p.name = "add2" ->
            <<OpLambda(Nary(2), "ADD2"), OpPushInt(3), OpPushInt(4), OpCall(2)>>
      [] p.name = "adder" ->
            <<OpLambda(Nary(1), "MAKE_ADDER"), OpDefGlobal("make-adder"), OpPop,
              OpGetGlobal("make-adder"), OpPushInt(10), OpCall(1), OpDefGlobal("add10"), OpPop,
              OpGetGlobal("make-adder"), OpPushInt(20), OpCall(1), OpDefGlobal("add20"), OpPop,
              OpGetGlobal("add10"), OpPushInt(5), OpCall(1)>>
      [] p.name = "again" ->
            <<OpGetGlobal("make-adder"), OpPushInt(30), OpCall(1), OpPop,
              OpGetGlobal("add10"), OpPushInt(5), OpCall(1)>>
      [] p.name = "share" -> <<OpLambda(Nary(1), "OUTER"), OpPushInt(1), OpCall(1)>>
      [] p.name = "nested_escaped" ->
            <<OpLambda(Nary(1), "L1"), OpPushInt(7), OpCall(1), OpPushInt(8), OpCall(1),
              OpPushInt(9), OpCall(1)>>
      [] p.name = "nested_direct" ->
            <<OpLambda(Nary(1), "L1D"), OpPushInt(7), OpCall(1), OpPushInt(9), OpCall(1)>>
      [] p.name = "nested_deep" ->
            <<OpLambda(Nary(1), "L1T"), OpPushInt(7), OpCall(1), OpPushInt(9), OpCall(1)>>
      [] p.name = "count" ->
            <<OpLambda(Nary(1), "COUNT"), OpDefGlobal("count"), OpPop, OpGetGlobal("count"),
              OpPushInt(1), OpPushInt(2), OpList(2), OpCall(1)>>
      [] p.name = "err_notfound" -> <<OpPushInt(1), OpGetGlobal("y")>>
      [] p.name = "err_deep" -> <<OpLambda(Nary(1), "CAROF"), OpPushInt(5), OpCall(1)>>
      [] p.name = "err_assert" -> <<OpPushSymbol("foo"), OpIsType("Int"), OpAssert>>
      [] p.name = "ok_assert" ->
            <<OpPushInt(1), OpPushInt(2), OpCons, OpIsType("Cons"), OpAssert>>
      [] p.name = "err_branch" -> <<OpPushInt(1), OpBranch(1), OpPushNil, OpPushNil>>
      [] p.name = "err_call" -> <<OpPushInt(1), OpCall(0)>>
      [] p.name = "err_setglobal" -> <<OpPushInt(1), OpSetGlobal("y")>>
      [] p.name = "err_add" -> <<OpPushNil, OpPushInt(1), OpAdd>>
      [] p.name = "ar_nullary" -> <<OpLambda(Nullary, "ZERO"), OpPushInt(1), OpCall(1)>>
      [] p.name = "ar_nary0" -> <<OpLambda(Nary(2), "ADD2"), OpCall(0)>>
      [] p.name = "ar_nary1" -> <<OpLambda(Nary(2), "ADD2"), OpPushInt(1), OpCall(1)>>
      [] p.name = "ar_nary3" ->
            <<OpLambda(Nary(2), "ADD2"), OpPushInt(1), OpPushInt(2), OpPushInt(3), OpCall(3)>>
      [] p.name = "variadic" ->
            <<OpLambda(Variadic, "ZERO"), OpPushInt(1), OpPushInt(2), OpCall(2)>>
      [] p.name = "misc" ->
            <<OpPushString("s"), OpPop, OpPushTrue, OpDefGlobal("x"), OpPop, OpPushInt(4),
              OpSetGlobal("x")>>
      [] p.name = "setlocal" -> <<OpLambda(Nary(1), "SETL"), OpPushInt(1), OpCall(1)>>
      [] p.name = "carcons" -> <<OpPushInt(1), OpPushInt(2), OpCons, OpCar>>
      [] p.name = "tail" -> <<OpPushInt(1), OpTail(0)>>
      [] p.name = "noret" -> <<OpLambda(Nullary, "NORET"), OpCall(0)>>
      [] OTHER -> <<>>

\* ------------------------------------------------------------ AST lowering
\* crates/compiler/src/ast.rs: S-expressions to AST nodes.

\* reader::Sexpr; one record shape for all variants.
Sx(kind, s, n, kids) == [kind |-> kind, s |-> s, n |-> n, kids |-> kids]

SxList(kids) == Sx("List", "", 0, kids)

SxSym(s) == Sx("Symbol", s, 0, <<>>)

SxStr(s) == Sx("String", s, 0, <<>>)

SxChar(c) == Sx("Char", c, 0, <<>>)

SxInt(n) == Sx("Int", "", n, <<>>)

SxBool(b) == Sx("Bool", "", IF b THEN 1 ELSE 0, <<>>)

SxNil == Sx("Nil", "", 0, <<>>)

BUILT_INS ==
    {"+", "-", "*", "/", "cons", "car", "cdr", "list", "apply", "cons?", "function?",
     "symbol?", "string?", "int?", "char?", "nil?", "lambda", "defmacro", "def", "set!",
     "eval-when-compile", "quote", "if", "=", ">", "<", "assert", "decl", "map-create",
     "map-insert!", "map-retrieve", "map-items", "module", "export", "require"}

\* enum Type (of a parameter), None for an absent annotation.
NoType == [kind |-> "None", s |-> "", kids |-> <<>>]

\* struct Parameter, and the Err(()) of its parser.
NoParameter == [ok |-> FALSE, name |-> "", type |-> NoType]

\* enum Parameters, None where a node has none.
NoParameters == [kind |-> "None", params |-> <<>>, rest |-> NoParameter]

\* enum Variable, None where a node has none; module and name are pieces of
\* the symbol's text.
NoVariable == [kind |-> "None", module |-> <<>>, name |-> <<>>]

\* enum Ast; one record shape for all variants: s the name / operator /
\* parameter tag, kids the lowered children, quoted the Quoted values of a
\* MacroCall or Quote.
Ast(kind, source, s, kids) ==
    [kind |-> kind, source |-> source, s |-> s, kids |-> kids, quoted |-> <<>>,
     parameters |-> NoParameters, variable |-> NoVariable, type |-> NoType]

NoAst == Ast("None", SxNil, "", <<>>)

\* Ast::source_sexpr
source_sexpr(ast) == ast.source

\* Result<Ast, Error> with the compiler's macros afterwards; Panic for an
\* abort.
AstOk(ast, macros) ==
    [kind |-> "Ok", ast |-> ast, sexpr |-> SxNil, message |-> "", macros |-> macros]

AstErr(sexpr, message, macros) ==
    [kind |-> "Err", ast |-> NoAst, sexpr |-> sexpr, message |-> message, macros |-> macros]

AstPanic(macros) ==
    [kind |-> "Panic", ast |-> NoAst, sexpr |-> SxNil, message |-> "", macros |-> macros]

\* Type::from_sexpr, NoType for Err(()).
RECURSIVE TypeFromSexpr(_)

TypeFromSexpr(sexpr) ==
    CASE sexpr.kind = "List" ->
            LET kids == [i \in 1..Len(sexpr.kids) |-> TypeFromSexpr(sexpr.kids[i])]
            IN  IF \E i \in 1..Len(kids) : kids[i] = NoType
                THEN NoType
                ELSE [kind |-> "Composite", s |-> "", kids |-> kids]
      [] sexpr.kind = "Symbol" -> [kind |-> "Scalar", s |-> sexpr.s, kids |-> <<>>]
      [] OTHER -> NoType

\* Parameter::from_sexpr
ParameterFromSexpr(sexpr) ==
    CASE sexpr.kind = "List" ->
            IF Len(sexpr.kids) # 2 \/ sexpr.kids[1].kind # "Symbol"
                  \/ TypeFromSexpr(sexpr.kids[2]) = NoType
            THEN NoParameter
            ELSE [ok |-> TRUE, name |-> sexpr.kids[1].s, type |-> TypeFromSexpr(sexpr.kids[2])]
      [] sexpr.kind = "Symbol" -> [ok |-> TRUE, name |-> sexpr.s, type |-> NoType]
      [] OTHER -> NoParameter

\* micro_nom::take_while, with the predicate "is none of stops": how many
\* leading elements of the input it takes.  A parser takes a prefix of its
\* input and hands the remainder to the next one.
take_while(input, stops) ==
    CHOOSE n \in 0..Len(input) :
        /\ \A i \in 1..n : input[i] \notin stops
        /\ n < Len(input) => input[n + 1] \in stops

\* parse_parameters: with_rest is take_while(name # &rest), then one &rest,
\* then take_one; when it fails, without_rest takes all.  The remainder the
\* chosen parser leaves is dropped: `Ok((_, p)) => p`.
parse_parameters(list) ==
    LET parameters == [i \in 1..Len(list) |-> ParameterFromSexpr(list[i])]
        leading == take_while([i \in 1..Len(list) |-> parameters[i].name], {"&rest"})
    IN  IF \E i \in 1..Len(list) : ~parameters[i].ok
        THEN NoParameters
        ELSE IF leading + 2 <= Len(list)
        THEN [kind |-> "Rest", params |-> SubSeq(parameters, 1, leading),
              rest |-> parameters[leading + 2]]
        ELSE [kind |-> "Normal", params |-> parameters, rest |-> NoParameter]

\* The text of a symbol as its colons and the pieces between them.
Spelling(symbol) ==
    CASE symbol = "" -> <<>>
      [] symbol = "m::n" -> <<"m", ":", ":", "n">>
      [] symbol = "a:b" -> <<"a", ":", "b">>
      [] symbol = "a:b::c" -> <<"a", ":", "b", ":", ":", "c">>
      [] symbol = "a::b::c" -> <<"a", ":", ":", "b", ":", ":", "c">>
      [] symbol = "m:::n" -> <<"m", ":", ":", ":", "n">>
      [] symbol = ":a::b" -> <<":", "a", ":", ":", "b">>
      [] symbol = "::x" -> <<":", ":", "x">>
      [] symbol = "m::" -> <<"m", ":", ":">>
      [] OTHER -> <<symbol>>

\* parse_variable: with_module is take_while1(c # ':'), then two colons,
\* then take_while1(any); when it fails, without_module is take_while1(any).
parse_variable(variable) ==
    LET text == Spelling(variable)
        module == take_while(text, {":"})
    IN  IF /\ module >= 1
           /\ module + 3 <= Len(text)
           /\ text[module + 1] = ":"
           /\ text[module + 2] = ":"
        THEN [kind |-> "WithModule", module |-> SubSeq(text, 1, module),
              name |-> SubSeq(text, module + 3, Len(text))]
        ELSE IF text # <<>>
        THEN [kind |-> "WithoutModule", module |-> <<>>, name |-> text]
        ELSE NoVariable

\* enum Quoted; every node of a quotation carries the source it was given.
Quoted(kind, source, s, n, list) ==
    [kind |-> kind, source |-> source, s |-> s, n |-> n, list |-> list]

RECURSIVE quote_list(_, _)

quote_list_flat(source, list) ==
    Quoted("List", source, "", 0,
           [i \in 1..Len(list) |->
               Quoted(list[i].kind, source, list[i].s, list[i].n, <<>>)])

quote_list(source, list) ==
    Quoted("List", source, "", 0,
           [i \in 1..Len(list) |->
               IF list[i].kind = "List"
               THEN quote_list(source, list[i].kids)
               ELSE Quoted(list[i].kind, source, list[i].s, list[i].n, <<>>)])

quote(source, sexpr) ==
    IF sexpr.kind = "List"
    THEN quote_list(source, sexpr.kids)
    ELSE Quoted(sexpr.kind, source, sexpr.s, sexpr.n, <<>>)

\* struct Compiler { macros }: Compiler::new
NewMacros == {}

\* The ? operator on a lowered sequence: the first failure, with no node.
Propagate(r) ==
    [kind |-> r.kind, ast |-> NoAst, sexpr |-> r.sexpr, message |-> r.message,
     macros |-> r.macros]

\* The parameter tag of an IsType node.
IsTypeParameter(parameter) ==
    CASE parameter = "function?" -> "Function"
      [] parameter = "cons?" -> "Cons"
      [] parameter = "symbol?" -> "Symbol"
      [] parameter = "string?" -> "String"
      [] parameter = "char?" -> "Char"
      [] parameter = "int?" -> "Int"
      [] parameter = "bool?" -> "Bool"
      [] parameter = "nil?" -> "Nil"

\* The node kind of the built-in forms whose operands are all lowered.
NodeKind(symbol) ==
    CASE symbol = "eval-when-compile" -> "EvalWhenCompile"
      [] symbol = "if" -> "If"
      [] symbol = "apply" -> "Apply"
      [] symbol \in {"+", "-", "*", "/"} -> "BinaryArithemticOperation"
      [] symbol \in {"=", "<", ">"} -> "ComparisonOperation"
      [] symbol = "list" -> "List"
      [] symbol = "cons" -> "Cons"
      [] symbol = "car" -> "Car"
      [] symbol = "cdr" -> "Cdr"
      [] symbol = "assert" -> "Assert"
      [] symbol = "map-insert!" -> "MapInsert"
      [] symbol = "map-retrieve" -> "MapRetrieve"
      [] symbol = "map-items" -> "MapItems"

\* The parameters operand of lambda and defmacro.
ParametersOf(parameters) ==
    CASE parameters.kind = "List" -> parse_parameters(parameters.kids)
      [] parameters.kind = "Nil" -> [kind |-> "Normal", params |-> <<>>, rest |-> NoParameter]
      [] OTHER -> NoParameters

RECURSIVE ast_compile(_, _)

RECURSIVE ast_compile_each(_, _)

\* args.iter().map(|arg| self.compile(arg)).collect::<Result<Vec<_>, _>>():
\* in order, stopping at the first failure.
ast_compile_each(args, macros) ==
    IF args = <<>>
    THEN [kind |-> "Ok", asts |-> <<>>, sexpr |-> SxNil, message |-> "", macros |-> macros]
    ELSE LET first == ast_compile(Head(args), macros)
             rest == ast_compile_each(Tail(args), first.macros)
         IN  IF first.kind # "Ok"
             THEN [kind |-> first.kind, asts |-> <<>>, sexpr |-> first.sexpr,
                   message |-> first.message, macros |-> first.macros]
             ELSE [rest EXCEPT !.asts = IF rest.kind = "Ok" THEN <<first.ast>> \o @ ELSE <<>>]

\* compile_module, compile_require
ast_compile_module(kind, source, name, macros) ==
    AstOk(Ast(kind, source, name, <<>>), macros)

\* compile_eval_when_compile, compile_if, compile_apply,
\* compile_binary_arithmetic_op, compile_comparison_op, compile_list,
\* compile_cons, compile_car, compile_cdr, compile_is_type, compile_assert,
\* compile_map_insert, compile_map_retrieve, compile_map_items: a node of the
\* lowered operands.
ast_compile_operands(kind, s, source, args, macros) ==
    LET exprs == ast_compile_each(args, macros)
    IN  IF exprs.kind # "Ok"
        THEN Propagate(exprs)
        ELSE AstOk(Ast(kind, source, s, exprs.asts), exprs.macros)

ast_compile_defmacro_unregistered(source, name, parameters, rest, macros) ==
    LET body == ast_compile_each(rest, macros)
    IN  IF ParametersOf(parameters) = NoParameters
        THEN AstErr(source,
                    IF parameters.kind = "List" THEN "failed to parse parameters"
                    ELSE "expected list for parameters", macros)
        ELSE IF body.kind # "Ok"
        THEN Propagate(body)
        ELSE AstOk([Ast("DefMacro", source, name, body.asts)
                       EXCEPT !.parameters = ParametersOf(parameters)], body.macros)

\* compile_defmacro gone wrong: the name is registered once the parameters
\* and the body have been lowered, and only then.
ast_compile_defmacro_registers_last(source, name, parameters, rest, macros) ==
    LET body == ast_compile_each(rest, macros)
    IN  IF ParametersOf(parameters) = NoParameters
        THEN AstErr(source,
                    IF parameters.kind = "List" THEN "failed to parse parameters"
                    ELSE "expected list for parameters", macros)
        ELSE IF body.kind # "Ok"
        THEN Propagate(body)
        ELSE AstOk([Ast("DefMacro", source, name, body.asts)
                       EXCEPT !.parameters = ParametersOf(parameters)],
                   body.macros \cup {name})

ast_compile_defmacro(source, name, parameters, rest, macros) ==
    LET body == ast_compile_each(rest, macros \cup {name})
    IN  IF ParametersOf(parameters) = NoParameters
        THEN AstErr(source,
                    IF parameters.kind = "List" THEN "failed to parse parameters"
                    ELSE "expected list for parameters", macros \cup {name})
        ELSE IF body.kind # "Ok"
        THEN Propagate(body)
        ELSE AstOk([Ast("DefMacro", source, name, body.asts)
                       EXCEPT !.parameters = ParametersOf(parameters)], body.macros)

\* compile_lambda; typed tells whether a return type was written.
ast_compile_lambda(source, parameters, typed, type, rest, macros) ==
    LET body == ast_compile_each(rest, macros)
    IN  IF typed /\ TypeFromSexpr(type) = NoType
        THEN AstErr(source, "failed to parse type", macros)
        ELSE IF ParametersOf(parameters) = NoParameters
        THEN AstErr(source,
                    IF parameters.kind = "List" THEN "failed to parse parameters"
                    ELSE "expectes list for parameters", macros)
        ELSE IF body.kind # "Ok"
        THEN Propagate(body)
        ELSE AstOk([Ast("Lambda", source, "", body.asts)
                       EXCEPT !.parameters = ParametersOf(parameters),
                              !.type = IF typed THEN TypeFromSexpr(type) ELSE NoType],
                   body.macros)

\* compile_def, compile_decl
ast_compile_def(kind, source, parameter, body, macros) ==
    LET lowered == ast_compile(body, macros)
    IN  IF ~ParameterFromSexpr(parameter).ok
        THEN AstErr(source, "failed to parse parameter", macros)
        ELSE IF lowered.kind # "Ok"
        THEN lowered
        ELSE AstOk([Ast(kind, source, ParameterFromSexpr(parameter).name, <<lowered.ast>>)
                       EXCEPT !.type = ParameterFromSexpr(parameter).type], lowered.macros)

ast_compile_set(source, parameter, body, macros) ==
    LET lowered == ast_compile(body, macros)
    IN  IF parameter.kind # "Symbol"
        THEN AstErr(source, "expected symbol", macros)
        ELSE IF parse_variable(parameter.s) = NoVariable
        THEN AstErr(source, "failed to parse variable", macros)
        ELSE IF lowered.kind # "Ok"
        THEN lowered
        ELSE AstOk([Ast("Set", source, "", <<lowered.ast>>)
                       EXCEPT !.variable = parse_variable(parameter.s)], lowered.macros)

ast_compile_fncall_head_source(source, function, args, macros) ==
    ast_compile_operands("FnCall", "", function, <<function>> \o args, macros)

ast_compile_fncall(source, function, args, macros) ==
    ast_compile_operands("FnCall", "", source, <<function>> \o args, macros)

ast_compile_macro_call(source, macro, args, macros) ==
    AstOk([Ast("MacroCall", source, macro, <<>>)
              EXCEPT !.quoted = [i \in 1..Len(args) |-> quote(source, args[i])]], macros)

ast_compile_quote(source, body, macros) ==
    AstOk([Ast("Quote", source, "", <<>>) EXCEPT !.quoted = <<quote(source, body)>>], macros)

ast_compile_is_type(source, parameter, body, macros) ==
    ast_compile_operands("IsType", IsTypeParameter(parameter), source, <<body>>, macros)

ast_compile_export(source, item, macros) ==
    CASE parse_variable(item).kind = "WithoutModule" ->
            AstOk([Ast("Export", source, item, <<>>)
                      EXCEPT !.variable = parse_variable(item)], macros)
      [] parse_variable(item).kind = "WithModule" ->
            AstErr(source, "expected non-module variable", macros)
      [] OTHER -> AstErr(source, "failed to parse variable", macros)

\* The arms of compile for a list whose head is a built-in name, otherwise
\* being what the last arm gives.
BuiltInArms(sexpr, macros, otherwise) ==
    LET list == sexpr.kids
        symbol == list[1].s
        n == Len(list)
        arrow == n >= 4 /\ list[3].kind = "Symbol" /\ list[3].s = "->"
    IN  CASE symbol = "module" /\ n = 2 /\ list[2].kind = "Symbol" ->
                ast_compile_module("Module", sexpr, list[2].s, macros)
          [] symbol = "require" /\ n = 2 /\ list[2].kind = "Symbol" ->
                ast_compile_module("Require", sexpr, list[2].s, macros)
          [] symbol = "eval-when-compile" ->
                ast_compile_operands(NodeKind(symbol), "", sexpr, Tail(list), macros)
          [] symbol = "defmacro" /\ n >= 3 /\ list[2].kind = "Symbol" ->
                ast_compile_defmacro(sexpr, list[2].s, list[3], SubSeq(list, 4, n), macros)
          [] symbol = "lambda" /\ arrow ->
                ast_compile_lambda(sexpr, list[2], TRUE, list[4], SubSeq(list, 5, n), macros)
          [] symbol = "lambda" /\ n >= 2 /\ ~arrow ->
                ast_compile_lambda(sexpr, list[2], FALSE, SxNil, SubSeq(list, 3, n), macros)
          [] symbol = "def" /\ n = 3 ->
                ast_compile_def("Def", sexpr, list[2], list[3], macros)
          [] symbol = "decl" /\ n = 3 ->
                ast_compile_def("Decl", sexpr, list[2], list[3], macros)
          [] symbol = "set!" /\ n = 3 ->
                ast_compile_set(sexpr, list[2], list[3], macros)
          [] symbol = "if" /\ n = 4 ->
                ast_compile_operands(NodeKind(symbol), "", sexpr, Tail(list), macros)
          [] symbol = "apply" /\ n = 3 ->
                ast_compile_operands(NodeKind(symbol), "", sexpr, Tail(list), macros)
          [] symbol \in {"+", "-", "*", "/", "=", "<", ">"} /\ n = 3 ->
                ast_compile_operands(NodeKind(symbol), symbol, sexpr, Tail(list), macros)
          [] symbol = "list" ->
                ast_compile_operands(NodeKind(symbol), "", sexpr, Tail(list), macros)
          [] symbol = "cons" /\ n = 3 ->
                ast_compile_operands(NodeKind(symbol), "", sexpr, Tail(list), macros)
          [] symbol \in {"car", "cdr"} /\ n = 2 ->
                ast_compile_operands(NodeKind(symbol), "", sexpr, Tail(list), macros)
          [] symbol \in {"function?", "cons?", "symbol?", "string?", "char?", "int?",
                         "bool?", "nil?"} /\ n = 2 ->
                ast_compile_is_type(sexpr, symbol, list[2], macros)
          [] symbol = "quote" /\ n = 2 ->
                ast_compile_quote(sexpr, list[2], macros)
          [] symbol = "assert" /\ n = 2 ->
                ast_compile_operands(NodeKind(symbol), "", sexpr, Tail(list), macros)
          [] symbol = "map-create" /\ n = 1 ->
                AstOk(Ast("MapCreate", sexpr, "", <<>>), macros)
          [] symbol = "map-insert!" /\ n = 4 ->
                ast_compile_operands(NodeKind(symbol), "", sexpr, Tail(list), macros)
          [] symbol = "map-retrieve" /\ n = 3 ->
                ast_compile_operands(NodeKind(symbol), "", sexpr, Tail(list), macros)
          [] symbol = "map-items" /\ n = 2 ->
                ast_compile_operands(NodeKind(symbol), "", sexpr, Tail(list), macros)
          [] symbol = "export" /\ n = 2 /\ list[2].kind = "Symbol" ->
                ast_compile_export(sexpr, list[2].s, macros)
          [] OTHER -> otherwise

\* The inner match of compile.
built_in(sexpr, macros) ==
    BuiltInArms(sexpr, macros, AstErr(sexpr, "invalid expression", macros))

\* The guards of the two list arms of compile that look at the head.
HeadIn(sexpr, names) ==
    /\ sexpr.kind = "List"
    /\ sexpr.kids # <<>>
    /\ sexpr.kids[1].kind = "Symbol"
    /\ sexpr.kids[1].s \in names

\* The arms of compile for everything but a list headed by a built-in or a
\* macro name.
OtherArms(sexpr, macros) ==
    CASE sexpr.kind = "List" /\ sexpr.kids # <<>> ->
            ast_compile_fncall(sexpr, Head(sexpr.kids), Tail(sexpr.kids), macros)
      [] sexpr.kind = "List" /\ sexpr.kids = <<>> -> AstPanic(macros)
      [] sexpr.kind = "Symbol" ->
            IF parse_variable(sexpr.s) = NoVariable
            THEN AstErr(sexpr, "failed to parse variable", macros)
            ELSE AstOk([Ast("Variable", sexpr, "", <<>>)
                           EXCEPT !.variable = parse_variable(sexpr.s)], macros)
      [] OTHER -> AstOk(Ast("Constant", sexpr, sexpr.kind, <<>>), macros)

\* Compiler::compile
ast_compile(sexpr, macros) ==
    IF HeadIn(sexpr, BUILT_INS)
    THEN built_in(sexpr, macros)
    ELSE IF HeadIn(sexpr, macros)
    THEN ast_compile_macro_call(sexpr, sexpr.kids[1].s, Tail(sexpr.kids), macros)
    ELSE OtherArms(sexpr, macros)

\* The forms given to the compiler.
SxOne == SxInt(1)

SxTwo == SxInt(2)

SxX == SxSym("x")

Form(head, operands) == SxList(<<SxSym(head)>> \o operands)

\* Macro definitions: plain, with &rest, without parameters, under the name
\* of a built-in form and of bool?, one that uses itself, and ill-formed ones.
DefMacroForms ==
    {Form("defmacro", <<SxSym("when"), SxList(<<SxSym("p"), SxSym("b")>>),
                        Form("list", <<SxSym("p"), SxSym("b")>>)>>),
     Form("defmacro", <<SxSym("every"), SxList(<<SxSym("a"), SxSym("&rest"), SxSym("b")>>),
                        SxSym("a")>>),
     Form("defmacro", <<SxSym("unit"), SxNil, SxOne>>),
     Form("defmacro", <<SxSym("if"), SxList(<<SxX>>), SxX>>),
     Form("defmacro", <<SxSym("bool?"), SxList(<<SxX>>), SxX>>),
     Form("defmacro", <<SxSym("rec"), SxList(<<SxX>>), Form("rec", <<SxX>>)>>),
     Form("defmacro", <<SxSym("bad"), SxInt(5), SxX>>),
     Form("defmacro", <<SxSym("worse"), SxList(<<SxX>>), Form("car", <<>>)>>),
     Form("defmacro", <<SxSym("lone")>>),
     Form("defmacro", <<SxInt(5), SxList(<<SxX>>), SxX>>),
     Form("defmacro", <<>>)}

\* Lists headed by a name that may or may not be registered, and by no name.
CallForms ==
    {Form(h, <<SxOne, SxTwo>>) : h \in {"when", "every", "rec", "bad", "worse", "f"}}
    \cup {Form("unit", <<>>),
          Form("when", <<Form("if", <<SxOne, SxTwo>>), Form("g", <<SxX>>)>>),
          Form("when", <<Form("defmacro", <<SxSym("inner"), SxNil, SxOne>>), SxList(<<>>)>>),
          Form("inner", <<SxOne>>),
          Form("f", <<Form("when", <<SxOne, SxTwo>>)>>),
          Form("f", <<SxOne, Form("car", <<SxOne, SxTwo>>)>>),
          Form("f", <<Form("defmacro", <<SxSym("g"), SxNil, SxOne>>), Form("g", <<SxX>>)>>),
          SxList(<<Form("lambda", <<SxList(<<SxX>>), SxX>>), SxOne>>),
          SxList(<<SxOne, SxTwo>>),
          SxList(<<SxStr("s")>>)}

TypePredicates == {"function?", "cons?", "symbol?", "string?", "char?", "int?", "bool?", "nil?"}

\* Built-in forms in the shapes the compiler accepts.
ShapedForms ==
    {Form(p, <<SxX>>) : p \in TypePredicates}
    \cup {Form(o, <<SxOne, SxTwo>>) : o \in {"+", "-", "*", "/", "=", "<", ">", "cons", "apply"}}
    \cup {Form(o, <<SxX>>) : o \in {"car", "cdr", "assert", "quote", "map-items", "module",
                                    "require", "export"}}
    \cup {Form("if", <<SxOne, SxTwo, SxX>>),
          Form("if", <<Form("when", <<SxOne, SxTwo>>), SxOne, SxTwo>>),
          Form("list", <<>>),
          Form("list", <<SxOne, SxX>>),
          Form("quote", <<Form("if", <<SxOne, SxList(<<SxStr("s"), SxNil>>)>>)>>),
          Form("quote", <<Form("defmacro", <<SxSym("q"), SxNil, SxOne>>)>>),
          Form("quote", <<SxList(<<SxChar("c"), SxBool(TRUE), SxBool(FALSE), SxTwo,
                                   SxList(<<SxList(<<SxX, SxSym("y")>>), SxList(<<>>)>>)>>)>>),
          Form("quote", <<SxList(<<>>)>>),
          Form("quote", <<SxStr("s")>>),
          Form("q", <<SxOne>>),
          Form("def", <<SxX, SxOne>>),
          Form("def", <<SxList(<<SxX, SxSym("int")>>), SxOne>>),
          Form("decl", <<SxX, SxSym("int")>>),
          Form("set!", <<SxX, SxOne>>),
          Form("set!", <<SxSym("m::n"), SxOne>>),
          Form("lambda", <<SxList(<<SxX>>), SxX>>),
          Form("lambda", <<SxNil, SxOne, SxTwo>>),
          Form("lambda", <<SxList(<<SxX>>), SxSym("->"), SxSym("int"), SxX>>),
          Form("lambda", <<SxList(<<SxX, SxSym("&rest"), SxSym("r")>>)>>),
          Form("lambda", <<SxList(<<SxSym("&rest"), SxSym("r")>>), SxX>>),
          Form("lambda", <<SxList(<<SxSym("a"), SxSym("b"), SxSym("&rest"),
                                    SxList(<<SxSym("c"), SxSym("int")>>)>>), SxX>>),
          Form("lambda", <<SxList(<<SxSym("a"), SxSym("&rest"), SxSym("b"), SxSym("c")>>),
                           SxX>>),
          Form("lambda", <<SxList(<<SxSym("a"), SxSym("&rest")>>), SxX>>),
          Form("lambda", <<SxList(<<SxSym("&rest")>>), SxX>>),
          Form("lambda", <<SxList(<<SxSym("&rest"), SxSym("a"), SxSym("&rest"), SxSym("b")>>),
                           SxX>>),
          Form("lambda", <<SxList(<<SxSym("a"), SxList(<<SxSym("b"), SxSym("int")>>)>>),
                           SxX>>),
          Form("lambda", <<SxList(<<>>), SxX>>),
          Form("eval-when-compile", <<Form("def", <<SxX, SxOne>>)>>),
          Form("map-create", <<>>),
          Form("map-insert!", <<SxX, SxOne, SxTwo>>),
          Form("map-retrieve", <<SxX, SxOne>>)}

\* Built-in heads with too few or too many operands, or an operand of the
\* wrong kind.
MisshapedForms ==
    {Form(h, <<>>) : h \in {"if", "def", "car", "cdr", "cons", "+", "quote", "assert",
                             "set!", "lambda", "apply", "int?", "map-items", "module",
                             "require", "export", "decl", "="}}
    \cup {Form(h, <<SxOne, SxTwo>>) : h \in {"if", "car", "cdr", "quote", "assert", "int?",
                                              "nil?", "bool?", "map-items", "map-create",
                                              "module", "export"}}
    \cup {Form(h, <<SxX>>) : h \in {"def", "decl", "set!", "cons", "+", "<", "apply",
                                    "map-retrieve", "map-insert!", "map-create"}}
    \cup {Form("if", <<SxOne, SxTwo, SxX, SxX>>),
          Form("+", <<SxOne, SxTwo, SxX>>),
          Form("def", <<SxInt(5), SxOne>>),
          Form("set!", <<SxInt(5), SxOne>>),
          Form("module", <<SxInt(5)>>),
          Form("require", <<SxStr("m")>>),
          Form("export", <<SxSym("m::n")>>),
          Form("export", <<SxInt(5)>>),
          Form("lambda", <<SxInt(5), SxX>>),
          Form("lambda", <<SxList(<<SxInt(5)>>), SxX>>),
          Form("lambda", <<SxList(<<SxX>>), SxSym("->"), SxInt(5), SxX>>)}

Atoms ==
    {SxX, SxSym("m::n"), SxSym("a:b"), SxSym("::x"), SxSym("m::"), SxSym("a:b::c"),
     SxSym("a::b::c"), SxSym("m:::n"), SxSym(":a::b"), SxSym(""), SxOne, SxStr("s"),
     SxChar("c"), SxBool(TRUE), SxNil, SxList(<<>>)}

Forms == DefMacroForms \cup CallForms \cup ShapedForms \cup MisshapedForms \cup Atoms

\* ------------------------------------------------------------------- state

VARIABLES
    \* struct Vm
    globals,            \* name -> cell
    constants,          \* hash -> Constant
    stack,              \* sequence of cells
    frames,             \* sequence of Frame {function, pc, bp}
    current_function,   \* a closure of lambdas, 0 for None
    pc,
    bp,
    \* what the Rc handles point to
    heap,               \* cell -> Object
    lambdas,            \* closure -> Lambda {arity, opcodes, upvalues}
    \* the caller of the Vm
    opcodes,            \* the slice given to eval
    table,              \* the opcode table the emitter produced for it
    prog,               \* the program it was taken from
    entry,              \* pc when the caller entered the current eval
    status,             \* "new", "idle", "running", "ok", "err", "panic"
    result,             \* what eval returned
    evals,              \* how often eval was entered
    \* history, read by the properties only
    last,               \* the opcode the last step executed
    seen,               \* top-level pc -> stack length when it was fetched
    acts,               \* every activation (Call) so far
    calls,              \* the activations not yet returned from, innermost last
    returned,           \* the activation the last Return left, and its value
    lex,                \* closure -> activations lexically enclosing it
    ubind,              \* closure -> the binding each upvalue captured
    \* struct Compiler and its caller
    macros,             \* the names registered by defmacro
    sexpr,              \* the form given to the last compile
    lowered,            \* what that compile returned
    lowers              \* how many forms the compiler was given

vmvars == <<globals, constants, stack, frames, current_function, pc, bp, heap, lambdas>>

callervars == <<opcodes, table, prog, entry, status, result, evals>>

histvars == <<last, seen, acts, calls, returned, lex, ubind>>

astvars == <<macros, sexpr, lowered, lowers>>

vars == <<vmvars, callervars, histvars, astvars>>

NoOp == Op("", 0, "", Nullary, 0, "")

NoReturn == [act |-> 0, val |-> 0]

NoneSeen == [x \in {} |-> 0]

\* Vm::new
Init ==
    /\ globals = [x \in {} |-> 0]
    /\ constants = [x \in {} |-> 0]
    /\ stack = <<>>
    /\ frames = <<>>
    /\ current_function = 0
    /\ pc = 0
    /\ bp = 0
    /\ heap = <<>>
    /\ lambdas = <<>>
    /\ opcodes = <<>>
    /\ table = NewTable
    /\ prog = Prog("")
    /\ entry = 0
    /\ status = "new"
    /\ result = NoResult
    /\ evals = 0
    /\ last = NoOp
    /\ seen = NoneSeen
    /\ acts = <<>>
    /\ calls = <<>>
    /\ returned = NoReturn
    /\ lex = <<>>
    /\ ubind = <<>>
    /\ macros = NewMacros
    /\ sexpr = SxNil
    /\ lowered = AstOk(NoAst, NewMacros)
    /\ lowers = 0

\* HashMap::insert
Put(m, k, v) == [x \in DOMAIN m \cup {k} |-> IF x = k THEN v ELSE m[x]]

\* Vm::load_constants: every constant is inserted under its hash.
load_constants ==
    /\ status = "new"
    /\ constants' = [k \in DOMAIN constants \cup DOMAIN Pool |->
                        IF k \in DOMAIN Pool THEN Pool[k] ELSE constants[k]]
    /\ status' = "idle"
    /\ UNCHANGED <<globals, stack, frames, current_function, pc, bp, heap, lambdas>>
    /\ UNCHANGED <<opcodes, table, prog, entry, result, evals, astvars>>
    /\ UNCHANGED histvars

\* bytecode::compile on the forms of a unit, into a fresh table as the driver
\* does for each file; a todo!() ends the process.
Emit ==
    /\ status = "idle"
    /\ evals = 0
    /\ \E u \in Units :
          /\ prog' = IlProg(u)
          /\ table' = compile_each(u, NewTable)
    /\ status' = IF table'.panic THEN "panic" ELSE "emitted"
    /\ UNCHANGED vmvars
    /\ UNCHANGED <<opcodes, entry, result, evals, astvars>>
    /\ UNCHANGED histvars

\* What entering eval does to the caller's and the history variables.
Entered ==
    /\ entry' = pc
    /\ status' = "running"
    /\ result' = NoResult
    /\ evals' = evals + 1
    /\ last' = NoOp
    /\ seen' = NoneSeen
    /\ returned' = NoReturn
    /\ UNCHANGED vmvars
    /\ UNCHANGED <<acts, calls, lex, ubind, astvars>>

\* The caller enters eval with a slice of opcodes; the Vm is as the previous
\* eval left it.
EvalBegin ==
    /\ status \in {"idle", "ok", "err"}
    /\ evals < MaxEvals
    /\ \E p \in (IF evals = 0 THEN Programs ELSE FollowUps) :
          /\ prog' = p
          /\ opcodes' = OpcodesOf(p)
    /\ table' = NewTable
    /\ Entered

\* The caller enters eval with the emitted table.
EvalEmitted ==
    /\ status = "emitted"
    /\ Linkable(table.ops)
    /\ opcodes' = Link(table.ops)
    /\ UNCHANGED <<table, prog>>
    /\ Entered

\* ------------------------------------------------------------- eval: fetch

Running == status = "running"

\* The instruction source of the dispatch loop.
Code == IF current_function # 0 THEN lambdas[current_function].opcodes ELSE opcodes

Fetched == Running /\ pc < Len(Code)

CurOp == Code[pc + 1]

Fetch(o) == Fetched /\ CurOp.op = o

\* The innermost activation, 0 at the top level.
CurAct == IF calls = <<>> THEN 0 ELSE Last(calls)

\* The fetch of a top-level instruction is recorded with the stack length.
Seen == IF current_function = 0 THEN Put(seen, pc, Len(stack)) ELSE seen

\* A panic: the process is gone.
Panic ==
    /\ status' = "panic"
    /\ last' = CurOp
    /\ seen' = Seen
    /\ UNCHANGED vmvars
    /\ UNCHANGED <<opcodes, table, prog, entry, result, evals, astvars>>
    /\ UNCHANGED <<acts, calls, returned, lex, ubind>>

\* The handler went through: eval's loop goes on.
Continue ==
    /\ last' = CurOp
    /\ seen' = Seen
    /\ UNCHANGED <<callervars, astvars>>

\* Continue, for the handlers that neither call, return nor build closures.
Next1 ==
    /\ Continue
    /\ UNCHANGED <<acts, calls, returned, lex, ubind>>

\* The handler returned Err(e), which ? hands to eval's caller.
Raise(e) ==
    /\ status' = "err"
    /\ result' = e
    /\ last' = CurOp
    /\ seen' = Seen
    /\ UNCHANGED <<opcodes, table, prog, entry, evals, astvars>>
    /\ UNCHANGED <<acts, calls, returned, lex, ubind>>

\* The end of eval gone wrong: pc is not reset.
EvalReturnKeepsPc ==
    /\ Running
    /\ current_function = 0
    /\ pc >= Len(opcodes)
    /\ result' = OkResult(IF stack = <<>> THEN 0 ELSE Last(stack))
    /\ stack' = <<>>
    /\ pc' = pc
    /\ bp' = 0
    /\ status' = "ok"
    /\ last' = Op("EvalReturn", 0, "", Nullary, 0, "")
    /\ seen' = seen
    /\ UNCHANGED <<globals, constants, frames, current_function, heap, lambdas>>
    /\ UNCHANGED <<opcodes, table, prog, entry, evals, astvars>>
    /\ UNCHANGED <<acts, calls, returned, lex, ubind>>

\* eval, lines 161-169: at the top level with pc at the end of the slice the
\* top of the stack is returned and stack, pc and bp are reset.
EvalReturn ==
    /\ Running
    /\ current_function = 0
    /\ pc >= Len(opcodes)
    /\ result' = OkResult(IF stack = <<>> THEN 0 ELSE Last(stack))
    /\ stack' = <<>>
    /\ pc' = 0
    /\ bp' = 0
    /\ status' = "ok"
    /\ last' = Op("EvalReturn", 0, "", Nullary, 0, "")
    /\ seen' = seen
    /\ UNCHANGED <<globals, constants, frames, current_function, heap, lambdas>>
    /\ UNCHANGED <<opcodes, table, prog, entry, evals, astvars>>
    /\ UNCHANGED <<acts, calls, returned, lex, ubind>>

\* eval, line 160: opcodes[self.pc] of the current function, out of bounds.
FetchPanic ==
    /\ Running
    /\ current_function # 0
    /\ pc >= Len(Code)
    /\ status' = "panic"
    /\ UNCHANGED vmvars
    /\ UNCHANGED <<opcodes, table, prog, entry, result, evals, astvars>>
    /\ UNCHANGED histvars

\* constants.get(&h).unwrap().as_symbol().unwrap() and its siblings.
HasConstant(h, kind) == h \in DOMAIN constants /\ constants[h].kind = kind

\* Rc::new(RefCell::new(object)): the new cell's address.
NewCell == Len(heap) + 1

\* ----------------------------------------------------- eval: the handlers
\* Every handler runs after eval has incremented pc (line 171).

\* def_global gone wrong: an existing binding is kept.
def_global_keeps_first ==
    /\ Fetch("DefGlobal")
    /\ IF stack = <<>> \/ ~HasConstant(CurOp.k, "Symbol")
       THEN Panic
       ELSE /\ globals' = IF constants[CurOp.k].str \in DOMAIN globals
                          THEN globals
                          ELSE Put(globals, constants[CurOp.k].str, Last(stack))
            /\ heap' = Append(heap, NilObj)
            /\ stack' = Append(Front(stack), NewCell)
            /\ pc' = pc + 1
            /\ UNCHANGED <<constants, frames, current_function, bp, lambdas>>
            /\ Next1

def_global ==
    /\ Fetch("DefGlobal")
    /\ IF stack = <<>> \/ ~HasConstant(CurOp.k, "Symbol")
       THEN Panic
       ELSE /\ globals' = Put(globals, constants[CurOp.k].str, Last(stack))
            /\ heap' = Append(heap, NilObj)
            /\ stack' = Append(Front(stack), NewCell)
            /\ pc' = pc + 1
            /\ UNCHANGED <<constants, frames, current_function, bp, lambdas>>
            /\ Next1

\* set_global gone wrong: an unbound name is defined instead of refused.
set_global_defines ==
    /\ Fetch("SetGlobal")
    /\ IF stack = <<>> \/ ~HasConstant(CurOp.k, "Symbol")
       THEN Panic
       ELSE /\ globals' = Put(globals, constants[CurOp.k].str, Last(stack))
            /\ pc' = pc + 1
            /\ UNCHANGED <<constants, stack, frames, current_function, bp, heap, lambdas>>
            /\ Next1

set_global ==
    /\ Fetch("SetGlobal")
    /\ IF stack = <<>> \/ ~HasConstant(CurOp.k, "Symbol")
       THEN Panic
       ELSE IF constants[CurOp.k].str \in DOMAIN globals
       THEN /\ globals' = [globals EXCEPT ![constants[CurOp.k].str] = Last(stack)]
            /\ pc' = pc + 1
            /\ UNCHANGED <<constants, stack, frames, current_function, bp, heap, lambdas>>
            /\ Next1
       ELSE /\ stack' = Front(stack)
            /\ pc' = pc + 1
            /\ UNCHANGED <<globals, constants, frames, current_function, bp, heap, lambdas>>
            /\ Raise(NotFoundError(constants[CurOp.k].str))

get_global ==
    /\ Fetch("GetGlobal")
    /\ IF ~HasConstant(CurOp.k, "Symbol")
       THEN Panic
       ELSE IF constants[CurOp.k].str \in DOMAIN globals
       THEN /\ stack' = Append(stack, globals[constants[CurOp.k].str])
            /\ pc' = pc + 1
            /\ UNCHANGED <<globals, constants, frames, current_function, bp, heap, lambdas>>
            /\ Next1
       ELSE /\ pc' = pc + 1
            /\ UNCHANGED <<globals, constants, stack, frames, current_function, bp, heap, lambdas>>
            /\ Raise(NotFoundError(constants[CurOp.k].str))

\* The slot of local i, as an index of the 1-based stack.
LocalSlot(b, i) == b + i + 1

\* The value is popped, copied into the cell of the slot, and pushed back.
set_local ==
    /\ Fetch("SetLocal")
    /\ IF stack = <<>> \/ LocalSlot(bp, CurOp.n) > Len(stack) - 1
       THEN Panic
       ELSE /\ heap' = [heap EXCEPT ![stack[LocalSlot(bp, CurOp.n)]] = heap[Last(stack)]]
            /\ pc' = pc + 1
            /\ UNCHANGED <<globals, constants, stack, frames, current_function, bp, lambdas>>
            /\ Next1

\* get_local gone wrong: a fresh cell holding a copy of the value is pushed.
get_local_copies ==
    /\ Fetch("GetLocal")
    /\ IF LocalSlot(bp, CurOp.n) > Len(stack)
       THEN Panic
       ELSE /\ heap' = Append(heap, heap[stack[LocalSlot(bp, CurOp.n)]])
            /\ stack' = Append(stack, NewCell)
            /\ pc' = pc + 1
            /\ UNCHANGED <<globals, constants, frames, current_function, bp, lambdas>>
            /\ Next1

\* The slot's own cell is pushed (Rc::clone).
get_local ==
    /\ Fetch("GetLocal")
    /\ IF LocalSlot(bp, CurOp.n) > Len(stack)
       THEN Panic
       ELSE /\ stack' = Append(stack, stack[LocalSlot(bp, CurOp.n)])
            /\ pc' = pc + 1
            /\ UNCHANGED <<globals, constants, frames, current_function, bp, heap, lambdas>>
            /\ Next1

\* set_upvalue gone wrong: the closure's handle is replaced by the value's cell
\* instead of the value being stored into the shared cell.
set_upvalue_rebind ==
    /\ Fetch("SetUpValue")
    /\ IF \/ stack = <<>>
          \/ current_function = 0
          \/ CurOp.n >= Len(lambdas[current_function].upvalues)
       THEN Panic
       ELSE /\ lambdas' = [lambdas EXCEPT ![current_function].upvalues[CurOp.n + 1] =
                                              Last(stack)]
            /\ stack' = Front(stack)
            /\ pc' = pc + 1
            /\ UNCHANGED <<globals, constants, frames, current_function, bp, heap>>
            /\ Next1

\* set_upvalue gone wrong: the value is pushed back as set_local does.
set_upvalue_pushes_back ==
    /\ Fetch("SetUpValue")
    /\ IF \/ stack = <<>>
          \/ current_function = 0
          \/ CurOp.n >= Len(lambdas[current_function].upvalues)
          \/ lambdas[current_function].upvalues[CurOp.n + 1] = Last(stack)
       THEN Panic
       ELSE /\ heap' = [heap EXCEPT ![lambdas[current_function].upvalues[CurOp.n + 1]] =
                                        heap[Last(stack)]]
            /\ pc' = pc + 1
            /\ UNCHANGED <<globals, constants, stack, frames, current_function, bp, lambdas>>
            /\ Next1

\* The popped value is copied into the upvalue's cell; nothing is pushed.  The
\* Ref of val.borrow() lives to the end of the statement, so borrow_mut() of
\* the same cell panics.
set_upvalue ==
    /\ Fetch("SetUpValue")
    /\ IF \/ stack = <<>>
          \/ current_function = 0
          \/ CurOp.n >= Len(lambdas[current_function].upvalues)
          \/ lambdas[current_function].upvalues[CurOp.n + 1] = Last(stack)
       THEN Panic
       ELSE /\ heap' = [heap EXCEPT ![lambdas[current_function].upvalues[CurOp.n + 1]] =
                                        heap[Last(stack)]]
            /\ stack' = Front(stack)
            /\ pc' = pc + 1
            /\ UNCHANGED <<globals, constants, frames, current_function, bp, lambdas>>
            /\ Next1

get_upvalue ==
    /\ Fetch("GetUpValue")
    /\ IF current_function = 0 \/ CurOp.n >= Len(lambdas[current_function].upvalues)
       THEN Panic
       ELSE /\ stack' = Append(stack, lambdas[current_function].upvalues[CurOp.n + 1])
            /\ pc' = pc + 1
            /\ UNCHANGED <<globals, constants, frames, current_function, bp, heap, lambdas>>
            /\ Next1

\* The stack index (0-based) a CreateUpValue descriptor resolves to: slot index
\* of the executing frame, or of the frame saved `fr` entries back in frames.
UpValueIndex(fr, n) ==
    IF fr = 0 THEN bp + n ELSE frames[Len(frames) - fr + 1].bp + n

\* The binding behind stack index s (0-based): parameter i of the innermost
\* activation whose frame holds the slot, else the cell itself (a temporary).
BindingOf(s) ==
    LET owners == {j \in 1..Len(calls) : acts[calls[j]].base <= s}
        top == CHOOSE j \in owners : \A i \in owners : i <= j
    IN  IF owners # {} /\ s < acts[calls[top]].base + acts[calls[top]].n
        THEN <<calls[top], s - acts[calls[top]].base>>
        ELSE <<-1, stack[s + 1]>>

\* The cell of the resolved slot is appended to the upvalues of the closure on
\* top of the stack.
create_upvalue ==
    /\ Fetch("CreateUpValue")
    /\ IF \/ CurOp.fr > Len(frames)
          \/ UpValueIndex(CurOp.fr, CurOp.n) >= Len(stack)
          \/ heap[Last(stack)].type # "Function"
       THEN Panic
       ELSE /\ lambdas' = [lambdas EXCEPT ![heap[Last(stack)].fn].upvalues =
                              Append(@, stack[UpValueIndex(CurOp.fr, CurOp.n) + 1])]
            /\ ubind' = [ubind EXCEPT ![heap[Last(stack)].fn] =
                              Append(@, BindingOf(UpValueIndex(CurOp.fr, CurOp.n)))]
            /\ pc' = pc + 1
            /\ UNCHANGED <<globals, constants, stack, frames, current_function, bp, heap>>
            /\ Continue
            /\ UNCHANGED <<acts, calls, returned, lex>>

\* The callee of Call(n) sits below the n arguments.
CalleeSlot(n) == Len(stack) - n

\* The arity check of call: the two mismatches it looks for end in todo!().
ArityTodo(arity, n) ==
    \/ arity.kind = "Nullary" /\ n # 0
    \/ arity.kind = "Nary" /\ n = 0

\* SavedFrame gone wrong: the caller's function is not saved.
SavedFrameWithoutFunction == [function |-> 0, pc |-> pc + 1, bp |-> bp]

\* The frame call saves; pc is already that of the next instruction.
SavedFrame == [function |-> current_function, pc |-> pc + 1, bp |-> bp]

\* CallBase gone wrong: the base pointer is put on the callee's slot.
CallBaseAtCallee(len, n) == len - n - 1

\* CallBase gone wrong: the arguments are not counted.
CallBaseAtTop(len, n) == len

\* The callee's base pointer: the slot of its first argument.
CallBase(len, n) == len - n

call ==
    /\ Fetch("Call")
    /\ IF CalleeSlot(CurOp.n) < 1
       THEN Panic
       ELSE IF heap[stack[CalleeSlot(CurOp.n)]].type # "Function"
       THEN /\ pc' = pc + 1
            /\ UNCHANGED <<globals, constants, stack, frames, current_function, bp, heap, lambdas>>
            /\ Raise(TypeError("Function", TypeOf(heap[stack[CalleeSlot(CurOp.n)]])))
       ELSE IF ArityTodo(lambdas[heap[stack[CalleeSlot(CurOp.n)]].fn].arity, CurOp.n)
       THEN Panic
       ELSE /\ frames' = Append(frames, SavedFrame)
            /\ current_function' = heap[stack[CalleeSlot(CurOp.n)]].fn
            /\ bp' = CallBase(Len(stack), CurOp.n)
            /\ pc' = 0
            /\ UNCHANGED <<globals, constants, stack, heap, lambdas>>
            /\ Continue
            /\ acts' = Append(acts,
                  [lam |-> heap[stack[CalleeSlot(CurOp.n)]].fn,
                   base |-> Len(stack) - CurOp.n,
                   n |-> CurOp.n,
                   args |-> SubSeq(stack, Len(stack) - CurOp.n + 1, Len(stack)),
                   len_before |-> Len(stack),
                   cf_before |-> current_function,
                   bp_before |-> bp,
                   ret_pc |-> pc + 1])
            /\ calls' = Append(calls, Len(acts) + 1)
            /\ UNCHANGED <<returned, lex, ubind>>

\* RetStack gone wrong: the stack is cut to b, which keeps the callee's slot.
RetStackKeepsCallee(s, b) == Append(Truncate(Front(s), b), Last(s))

\* The stack Return leaves: the return value popped, the stack cut to b - 1
\* (the locals and the callee's slot go), the return value pushed.
RetStack(s, b) == Append(Truncate(Front(s), b - 1), Last(s))

\* RetFrame gone wrong: the oldest frame is restored, first-in first-out.
RetFrameOldest(fs) == fs[1]

\* The frame Return restores from.
RetFrame(fs) == Last(fs)

\* ret gone wrong: the frame is read but stays on frames.
ret_keeps_frame ==
    /\ Fetch("Return")
    /\ \E checked \in BOOLEAN :
          IF stack = <<>> \/ frames = <<>> \/ (bp = 0 /\ checked)
          THEN Panic
          ELSE /\ stack' = IF bp = 0 THEN stack ELSE RetStack(stack, bp)
               /\ frames' = frames
               /\ pc' = RetFrame(frames).pc
               /\ bp' = RetFrame(frames).bp
               /\ current_function' = RetFrame(frames).function
               /\ UNCHANGED <<globals, constants, heap, lambdas>>
               /\ Continue
               /\ returned' = [act |-> CurAct, val |-> Last(stack)]
               /\ calls' = IF calls = <<>> THEN calls ELSE Front(calls)
               /\ UNCHANGED <<acts, lex, ubind>>

\* bp - 1 with bp = 0 panics with overflow checks and wraps without them, and
\* then truncate does nothing; frames.pop().unwrap() panics on no frame.
ret ==
    /\ Fetch("Return")
    /\ \E checked \in BOOLEAN :
          IF stack = <<>> \/ frames = <<>> \/ (bp = 0 /\ checked)
          THEN Panic
          ELSE /\ stack' = IF bp = 0 THEN stack ELSE RetStack(stack, bp)
               /\ frames' = Front(frames)
               /\ pc' = RetFrame(frames).pc
               /\ bp' = RetFrame(frames).bp
               /\ current_function' = RetFrame(frames).function
               /\ UNCHANGED <<globals, constants, heap, lambdas>>
               /\ Continue
               /\ returned' = [act |-> CurAct, val |-> Last(stack)]
               /\ calls' = IF calls = <<>> THEN calls ELSE Front(calls)
               /\ UNCHANGED <<acts, lex, ubind>>

\* lambda gone wrong: a closure already built over the same opcodes is used
\* again instead of a fresh one.
lambda_cached ==
    /\ Fetch("Lambda")
    /\ IF ~HasConstant(CurOp.k, "Opcodes")
       THEN Panic
       ELSE LET old == {l \in 1..Len(lambdas) : lambdas[l].opcodes = constants[CurOp.k].ops}
            IN  /\ lambdas' = IF old # {} THEN lambdas ELSE Append(lambdas,
                      [arity |-> CurOp.ar, opcodes |-> constants[CurOp.k].ops, upvalues |-> <<>>])
                /\ heap' = Append(heap, FunctionObj(IF old # {} THEN CHOOSE l \in old : TRUE
                                                    ELSE Len(lambdas) + 1))
                /\ stack' = Append(stack, NewCell)
                /\ pc' = pc + 1
                /\ UNCHANGED <<globals, constants, frames, current_function, bp>>
                /\ Continue
                /\ lex' = IF old # {} THEN lex ELSE Append(lex, <<CurAct>> \o
                                  (IF CurAct = 0 THEN <<>> ELSE lex[acts[CurAct].lam]))
                /\ ubind' = IF old # {} THEN ubind ELSE Append(ubind, <<>>)
                /\ UNCHANGED <<acts, calls, returned>>

\* A fresh closure over the opcodes stored under the hash, with no upvalues,
\* in a fresh cell.
lambda ==
    /\ Fetch("Lambda")
    /\ IF ~HasConstant(CurOp.k, "Opcodes")
       THEN Panic
       ELSE /\ lambdas' = Append(lambdas,
                  [arity |-> CurOp.ar, opcodes |-> constants[CurOp.k].ops, upvalues |-> <<>>])
            /\ heap' = Append(heap, FunctionObj(Len(lambdas) + 1))
            /\ stack' = Append(stack, NewCell)
            /\ pc' = pc + 1
            /\ UNCHANGED <<globals, constants, frames, current_function, bp>>
            /\ Continue
            /\ lex' = Append(lex, <<CurAct>> \o
                                  (IF CurAct = 0 THEN <<>> ELSE lex[acts[CurAct].lam]))
            /\ ubind' = Append(ubind, <<>>)
            /\ UNCHANGED <<acts, calls, returned>>

\* A fresh cell holding object o is pushed.
PushNew(o) ==
    /\ heap' = Append(heap, o)
    /\ stack' = Append(stack, NewCell)
    /\ pc' = pc + 1
    /\ UNCHANGED <<globals, constants, frames, current_function, bp, lambdas>>
    /\ Next1

PushSymbol ==
    /\ Fetch("PushSymbol")
    /\ IF ~HasConstant(CurOp.k, "Symbol")
       THEN Panic
       ELSE PushNew(SymbolObj(constants[CurOp.k].str))

PushString ==
    /\ Fetch("PushString")
    /\ IF ~HasConstant(CurOp.k, "String")
       THEN Panic
       ELSE PushNew(StringObj(constants[CurOp.k].str))

PushInt ==
    /\ Fetch("PushInt")
    /\ PushNew(IntObj(CurOp.n))

PushTrue ==
    /\ Fetch("PushTrue")
    /\ PushNew(TrueObj)

PushNil ==
    /\ Fetch("PushNil")
    /\ PushNew(NilObj)

Pop ==
    /\ Fetch("Pop")
    /\ IF stack = <<>>
       THEN Panic
       ELSE /\ stack' = Front(stack)
            /\ pc' = pc + 1
            /\ UNCHANGED <<globals, constants, frames, current_function, bp, heap, lambdas>>
            /\ Next1

\* i64 division: the quotient is truncated toward zero.
TruncDiv(a, b) ==
    IF (a < 0) = (b < 0) THEN Abs(a) \div Abs(b) ELSE 0 - (Abs(a) \div Abs(b))

\* The closures add, sub, mul and div hand to binary_integer_op.
AddFn(a, b) == a + b

SubFn(a, b) == a - b

MulFn(a, b) == a * b

DivFn(a, b) == TruncDiv(a, b)

\* Of the closures only a / b can panic: on a zero divisor.
DivPanics(a, b) == b = 0

\* The closure f each of add, sub, mul and div hands to binary_integer_op,
\* named by its opcode, applied to (a, b).
Closure(op, a, b) ==
    CASE op = "Add" -> AddFn(a, b)
      [] op = "Sub" -> SubFn(a, b)
      [] op = "Mul" -> MulFn(a, b)
      [] op = "Div" -> DivFn(a, b)

ClosurePanics(op, a, b) == op = "Div" /\ DivPanics(a, b)

\* The first value popped (the top of the stack) is named a, the second b.
PoppedA == heap[stack[Len(stack)]]

PoppedB == heap[stack[Len(stack) - 1]]

\* Two values are popped, checked to be integers (a first), and f(a, b) is
\* pushed in a fresh cell.
binary_integer_op(op) ==
    IF Len(stack) < 2
    THEN Panic
    ELSE IF PoppedA.type # "Int" \/ PoppedB.type # "Int"
    THEN /\ stack' = SubSeq(stack, 1, Len(stack) - 2)
         /\ pc' = pc + 1
         /\ UNCHANGED <<globals, constants, frames, current_function, bp, heap, lambdas>>
         /\ Raise(TypeError("Int", IF PoppedA.type # "Int"
                                   THEN TypeOf(PoppedA) ELSE TypeOf(PoppedB)))
    ELSE IF ClosurePanics(op, PoppedA.int, PoppedB.int)
    THEN Panic
    ELSE /\ heap' = Append(heap, IntObj(Closure(op, PoppedA.int, PoppedB.int)))
         /\ stack' = Append(SubSeq(stack, 1, Len(stack) - 2), NewCell)
         /\ pc' = pc + 1
         /\ UNCHANGED <<globals, constants, frames, current_function, bp, lambdas>>
         /\ Next1

add ==
    /\ Fetch("Add")
    /\ binary_integer_op("Add")

sub ==
    /\ Fetch("Sub")
    /\ binary_integer_op("Sub")

mul ==
    /\ Fetch("Mul")
    /\ binary_integer_op("Mul")

div ==
    /\ Fetch("Div")
    /\ binary_integer_op("Div")

car ==
    /\ Fetch("Car")
    /\ IF stack = <<>>
       THEN Panic
       ELSE IF heap[Last(stack)].type = "Cons"
       THEN /\ stack' = Append(Front(stack), heap[Last(stack)].car)
            /\ pc' = pc + 1
            /\ UNCHANGED <<globals, constants, frames, current_function, bp, heap, lambdas>>
            /\ Next1
       ELSE /\ stack' = Front(stack)
            /\ pc' = pc + 1
            /\ UNCHANGED <<globals, constants, frames, current_function, bp, heap, lambdas>>
            /\ Raise(TypeError("Cons", TypeOf(heap[Last(stack)])))

cdr ==
    /\ Fetch("Cdr")
    /\ IF stack = <<>>
       THEN Panic
       ELSE IF heap[Last(stack)].type = "Cons"
       THEN /\ stack' = Append(Front(stack), heap[Last(stack)].cdr)
            /\ pc' = pc + 1
            /\ UNCHANGED <<globals, constants, frames, current_function, bp, heap, lambdas>>
            /\ Next1
       ELSE /\ stack' = Front(stack)
            /\ pc' = pc + 1
            /\ UNCHANGED <<globals, constants, frames, current_function, bp, heap, lambdas>>
            /\ Raise(TypeError("Cons", TypeOf(heap[Last(stack)])))

\* cons gone wrong: the pair holds the two cells in the order they were popped.
cons_swapped ==
    /\ Fetch("Cons")
    /\ IF Len(stack) < 2
       THEN Panic
       ELSE /\ heap' = Append(heap, ConsObj(stack[Len(stack)], stack[Len(stack) - 1]))
            /\ stack' = Append(SubSeq(stack, 1, Len(stack) - 2), NewCell)
            /\ pc' = pc + 1
            /\ UNCHANGED <<globals, constants, frames, current_function, bp, lambdas>>
            /\ Next1

\* rhs is popped first, lhs second; the pair holds the two cells themselves.
cons ==
    /\ Fetch("Cons")
    /\ IF Len(stack) < 2
       THEN Panic
       ELSE /\ heap' = Append(heap, ConsObj(stack[Len(stack) - 1], stack[Len(stack)]))
            /\ stack' = Append(SubSeq(stack, 1, Len(stack) - 2), NewCell)
            /\ pc' = pc + 1
            /\ UNCHANGED <<globals, constants, frames, current_function, bp, lambdas>>
            /\ Next1

\* make_list: a proper list of the cells, built from its end; the heap after
\* the allocations and the cell of the list.
RECURSIVE make_list(_, _)
make_list(objects, h) ==
    IF objects # <<>>
    THEN LET rest == make_list(Tail(objects), h)
         IN  [heap |-> Append(rest.heap, ConsObj(Head(objects), rest.cell)),
              cell |-> Len(rest.heap) + 1]
    ELSE [heap |-> Append(h, NilObj), cell |-> Len(h) + 1]

\* list gone wrong: the values are taken from the top of the stack down.
list_reversed ==
    /\ Fetch("List")
    /\ IF CurOp.n > Len(stack)
       THEN Panic
       ELSE LET made == make_list([i \in 1..CurOp.n |-> stack[Len(stack) - i + 1]], heap)
            IN  /\ heap' = made.heap
                /\ stack' = Append(SubSeq(stack, 1, Len(stack) - CurOp.n), made.cell)
                /\ pc' = pc + 1
                /\ UNCHANGED <<globals, constants, frames, current_function, bp, lambdas>>
                /\ Next1

list ==
    /\ Fetch("List")
    /\ IF CurOp.n > Len(stack)
       THEN Panic
       ELSE LET made == make_list(SubSeq(stack, Len(stack) - CurOp.n + 1, Len(stack)), heap)
            IN  /\ heap' = made.heap
                /\ stack' = Append(SubSeq(stack, 1, Len(stack) - CurOp.n), made.cell)
                /\ pc' = pc + 1
                /\ UNCHANGED <<globals, constants, frames, current_function, bp, lambdas>>
                /\ Next1

\* branch gone wrong: every value but nil falls through.
branch_truthy ==
    /\ Fetch("Branch")
    /\ IF stack = <<>>
       THEN Panic
       ELSE /\ stack' = Front(stack)
            /\ pc' = IF heap[Last(stack)].type = "Nil" THEN pc + 1 + CurOp.n ELSE pc + 1
            /\ UNCHANGED <<globals, constants, frames, current_function, bp, heap, lambdas>>
            /\ Next1

branch ==
    /\ Fetch("Branch")
    /\ IF stack = <<>>
       THEN Panic
       ELSE IF heap[Last(stack)].type \in {"True", "Nil"}
       THEN /\ stack' = Front(stack)
            /\ pc' = IF heap[Last(stack)].type = "Nil" THEN pc + 1 + CurOp.n ELSE pc + 1
            /\ UNCHANGED <<globals, constants, frames, current_function, bp, heap, lambdas>>
            /\ Next1
       ELSE /\ stack' = Front(stack)
            /\ pc' = pc + 1
            /\ UNCHANGED <<globals, constants, frames, current_function, bp, heap, lambdas>>
            /\ Raise(TypeError("Predicate", TypeOf(heap[Last(stack)])))

\* Stands for 2^64, which the model checker's integers cannot hold; every
\* other quantity of the model stays far below it.
UsizeModulus == 2 ^ 30

\* self.pc += offset as usize.  A negative offset becomes 2^64 + offset: the
\* sum overflows exactly when pc + offset >= 0, which panics with overflow
\* checks and wraps to pc + offset without them; otherwise the sum is the
\* huge value itself.
Jmp ==
    /\ Fetch("Jmp")
    /\ \E checked \in BOOLEAN :
          IF CurOp.n < 0 /\ pc + 1 + CurOp.n >= 0 /\ checked
          THEN Panic
          ELSE /\ pc' = IF CurOp.n < 0 /\ pc + 1 + CurOp.n < 0
                        THEN pc + 1 + CurOp.n + UsizeModulus
                        ELSE pc + 1 + CurOp.n
               /\ UNCHANGED <<globals, constants, stack, frames, current_function, bp, heap, lambdas>>
               /\ Next1

\* is_type gone wrong: the inspected value is popped.
is_type_pops ==
    /\ Fetch("IsType")
    /\ IF stack = <<>>
       THEN Panic
       ELSE /\ heap' = Append(heap, IF TypeOf(heap[Last(stack)]) = CurOp.ty
                                    THEN TrueObj ELSE NilObj)
            /\ stack' = Append(Front(stack), NewCell)
            /\ pc' = pc + 1
            /\ UNCHANGED <<globals, constants, frames, current_function, bp, lambdas>>
            /\ Next1

\* The top of the stack is inspected, not popped.
is_type ==
    /\ Fetch("IsType")
    /\ IF stack = <<>>
       THEN Panic
       ELSE PushNew(IF TypeOf(heap[Last(stack)]) = CurOp.ty THEN TrueObj ELSE NilObj)

\* assert gone wrong: every value but nil passes.
assert_truthy ==
    /\ Fetch("Assert")
    /\ IF stack = <<>>
       THEN Panic
       ELSE IF heap[Last(stack)].type # "Nil"
       THEN /\ stack' = Front(stack)
            /\ pc' = pc + 1
            /\ UNCHANGED <<globals, constants, frames, current_function, bp, heap, lambdas>>
            /\ Next1
       ELSE /\ stack' = Front(stack)
            /\ pc' = pc + 1
            /\ UNCHANGED <<globals, constants, frames, current_function, bp, heap, lambdas>>
            /\ Raise(AssertError)

\* The popped value is examined: only Object::True passes.
assert ==
    /\ Fetch("Assert")
    /\ IF stack = <<>>
       THEN Panic
       ELSE IF heap[Last(stack)].type = "True"
       THEN /\ stack' = Front(stack)
            /\ pc' = pc + 1
            /\ UNCHANGED <<globals, constants, frames, current_function, bp, heap, lambdas>>
            /\ Next1
       ELSE /\ stack' = Front(stack)
            /\ pc' = pc + 1
            /\ UNCHANGED <<globals, constants, frames, current_function, bp, heap, lambdas>>
            /\ Raise(AssertError)

\* OpCode::Tail has no arm of its own: `_ => todo!()`.
unhandled ==
    /\ Fetch("Tail")
    /\ Panic

Next ==
    \/ load_constants
    \/ Emit
    \/ EvalBegin
    \/ EvalEmitted
    \/ EvalReturn
    \/ FetchPanic
    \/ def_global
    \/ set_global
    \/ get_global
    \/ set_local
    \/ get_local
    \/ set_upvalue
    \/ get_upvalue
    \/ create_upvalue
    \/ call
    \/ ret
    \/ lambda
    \/ PushSymbol
    \/ PushString
    \/ PushInt
    \/ PushTrue
    \/ PushNil
    \/ Pop
    \/ add
    \/ sub
    \/ mul
    \/ div
    \/ car
    \/ cdr
    \/ cons
    \/ list
    \/ branch
    \/ Jmp
    \/ is_type
    \/ assert
    \/ unhandled

Spec == Init /\ [][Next]_vars

\* eval is a loop that waits for nothing: an eval that can take a step takes
\* it, and so does the caller.
LiveSpec == Spec /\ WF_vars(Next)

\* Compiler::compile on the next top-level form of a file, with the macros
\* registered so far; an abort ends the process.
Lower ==
    /\ lowered.kind # "Panic"
    /\ lowers < MaxForms
    /\ \E form \in Forms :
          /\ sexpr' = form
          /\ lowered' = ast_compile(form, macros)
    /\ macros' = lowered'.macros
    /\ lowers' = lowers + 1
    /\ UNCHANGED <<vmvars, callervars, histvars>>

AstNext == Lower

AstSpec == Init /\ [][AstNext]_vars

\* -------------------------------------------------------------- properties

Range(s) == {s[i] : i \in 1..Len(s)}

\* The operands of the arithmetic opcode about to execute, in emission
\* order: [lhs, rhs, OP] leaves rhs on top of lhs.
Lhs == heap[stack[Len(stack) - 1]]

Rhs == heap[stack[Len(stack)]]

ArithReady ==
    /\ Fetched
    /\ CurOp.op \in ArithOps
    /\ Len(stack) >= 2
    /\ Lhs.type = "Int"
    /\ Rhs.type = "Int"

\* a OP b of the language: lhs is the left operand.
Expected(op, a, b) ==
    CASE op = "Add" -> a + b
      [] op = "Sub" -> a - b
      [] op = "Mul" -> a * b
      [] op = "Div" -> TruncDiv(a, b)

\* C1 (as claimed): executing [push a, push b, OP] leaves a OP b on top of the
\* stack with a, the first-emitted operand, as the left operand: a+b, a-b, a*b
\* and, for b # 0, a/b truncated toward zero.
C1_ArithmeticLeftToRight ==
    [][(ArithReady /\ (CurOp.op = "Div" => Rhs.int # 0))
          => /\ status' = "running"
             /\ Len(stack') = Len(stack) - 1
             /\ heap'[Last(stack')] = IntObj(Expected(CurOp.op, Lhs.int, Rhs.int))]_vars

\* C2 (as claimed): Div with the integer 0 as divisor (the second-emitted
\* operand) makes eval return Err; it does not abort and pushes no result.
C2_DivByZeroReturnsErr ==
    [][(ArithReady /\ CurOp.op = "Div" /\ Rhs.int = 0)
          => /\ status' = "err"
             /\ Len(stack') <= Len(stack) - 2]_vars

\* C3 (as claimed): when eval returns a runtime error the stack is empty, there
\* are no frames and no current function, pc and bp are 0, and globals and
\* constants are as before the failing instruction.
C3_ErrorUnwindsMachine ==
    [][(status = "running" /\ status' = "err")
          => /\ stack' = <<>>
             /\ frames' = <<>>
             /\ current_function' = 0
             /\ pc' = 0
             /\ bp' = 0
             /\ globals' = globals
             /\ constants' = constants]_vars

\* The closure Call(n) is about to call.
CallReady ==
    /\ Fetch("Call")
    /\ CalleeSlot(CurOp.n) >= 1
    /\ heap[stack[CalleeSlot(CurOp.n)]].type = "Function"

Callee == lambdas[heap[stack[CalleeSlot(CurOp.n)]].fn]

\* The declared arity does not admit n arguments.
ArityMismatch(arity, n) ==
    \/ arity.kind = "Nullary" /\ n # 0
    \/ arity.kind = "Nary" /\ n # arity.n

\* C4 (as claimed): Call(n) on a closure whose arity does not admit n arguments
\* returns an error and does not enter the callee: no frame is pushed,
\* current_function and bp are unchanged.
C4_ArityMismatchReturnsErr ==
    [][(CallReady /\ ArityMismatch(Callee.arity, CurOp.n))
          => /\ status' = "err"
             /\ frames' = frames
             /\ current_function' = current_function
             /\ bp' = bp]_vars

\* The last step was a Return that went through; returned names the
\* activation it left.
JustReturned == last.op = "Return" /\ status # "panic" /\ returned.act # 0

\* C5: right after the Return matching a Call(n), at any nesting depth, the
\* stack is as long as right before the Call minus n minus 1 plus 1, and its
\* top is the value the callee returned.
C5_ReturnStackSize ==
    JustReturned
        => /\ Len(stack) = acts[returned.act].len_before - acts[returned.act].n - 1 + 1
           /\ Last(stack) = returned.val

\* A Return from a call made inside another function, with one argument.
C5_Witness ==
    /\ JustReturned
    /\ acts[returned.act].cf_before # 0
    /\ acts[returned.act].n = 1
    /\ Len(stack) >= 3

\* C6: frames are restored last-in first-out: right after the Return matching
\* a Call, current_function and bp are what they were right before the Call
\* and pc is the index of the instruction after the Call, for nested and
\* recursive calls.
C6_ReturnRestoresCaller ==
    JustReturned
        => /\ current_function = acts[returned.act].cf_before
           /\ bp = acts[returned.act].bp_before
           /\ pc = acts[returned.act].ret_pc

\* A Return from a recursive call, two calls deep in the same function.
C6_Witness ==
    /\ JustReturned
    /\ acts[returned.act].cf_before = acts[returned.act].lam
    /\ Len(frames) >= 2
    /\ current_function = acts[returned.act].lam

\* C7: for a call laid out [f, arg_0 .. arg_{n-1}, Call(n)], GetLocal(i) with
\* i < n inside the callee pushes the cell passed as arg_i, and
\* ((lambda (a b) (+ a b)) 3 4), evaluated from its first instruction,
\* evaluates to 7.
C7_GetLocalYieldsArgument ==
    /\ (last.op = "GetLocal" /\ status = "running" /\ CurAct # 0 /\ last.n < acts[CurAct].n)
          => Last(stack) = acts[CurAct].args[last.n + 1]
    /\ (status = "ok" /\ prog.name = "add2" /\ entry = 0)
          => result.cell # 0 /\ heap[result.cell] = IntObj(7)

\* The second parameter has just been read in the call of
\* (lambda (a b) (+ a b)) with 3 and 4.
C7_Witness ==
    /\ prog.name = "add2"
    /\ last.op = "GetLocal"
    /\ last.n = 1
    /\ status = "running"
    /\ CurAct # 0
    /\ acts[CurAct].n = 2
    /\ heap[Last(stack)] = IntObj(4)

\* C8: when two closures captured the same binding with CreateUpValue, a
\* SetUpValue of that binding in one of them stores the value so that the
\* upvalue of every closure that captured the binding reads it, and so does
\* the slot of the binding while its defining frame is still active.
C8_SetUpValueSeenByAll ==
    [][(Fetch("SetUpValue") /\ status' = "running")
          => LET b == ubind[current_function][CurOp.n + 1]
                 v == heap[Last(stack)]
             IN  /\ \A l \in 1..Len(lambdas) : \A j \in 1..Len(ubind[l]) :
                        ubind[l][j] = b => heap'[lambdas'[l].upvalues[j]] = v
                 /\ (b[1] \in Range(calls))
                        => heap'[stack'[acts[b[1]].base + b[2] + 1]] = v]_vars

\* SetUpValue has just stored 9 in one closure; another closure captured the
\* same parameter, whose defining frame is still active.
C8_Witness ==
    /\ last.op = "SetUpValue"
    /\ status = "running"
    /\ current_function # 0
    /\ \E l \in 1..Len(lambdas) : \E j \in 1..Len(ubind[l]) :
          /\ l # current_function
          /\ ubind[l][j] = ubind[current_function][last.n + 1]
          /\ ubind[l][j][1] \in Range(calls)
          /\ heap[lambdas[l].upvalues[j]] = IntObj(9)

\* C9: the closure returned by (make-adder 10) and bound to add10 carries
\* exactly one upvalue, which reads 10 whatever was called since, make-adder
\* included, and (add10 5), evaluated from its first instruction, is 15.
C9_ReturnedClosureKeepsCapture ==
    /\ "add10" \in DOMAIN globals
          => /\ heap[globals["add10"]].type = "Function"
             /\ Len(lambdas[heap[globals["add10"]].fn].upvalues) = 1
             /\ heap[lambdas[heap[globals["add10"]].fn].upvalues[1]] = IntObj(10)
    /\ (status = "ok" /\ prog.name \in {"adder", "again"} /\ entry = 0)
          => result.cell # 0 /\ heap[result.cell] = IntObj(15)

\* make-adder has been invoked with 10, with 20 and, in a later eval, with 30,
\* and (add10 5) has been evaluated again.
C9_Witness ==
    /\ status = "ok"
    /\ prog.name = "again"
    /\ "add20" \in DOMAIN globals
    /\ \E l \in 1..Len(lambdas) :
          /\ Len(lambdas[l].upvalues) = 1
          /\ heap[lambdas[l].upvalues[1]] = IntObj(30)
    /\ heap[result.cell] = IntObj(15)

\* C10 (as claimed): every CreateUpValue descriptor {frame, index} executed
\* for a closure addresses a live stack slot of the enclosing frame chain, and
\* the slot holds the variable of the function `frame` hops outward lexically
\* of the closure's parent, also when the intermediate function is called
\* after the defining function has returned.
C10_DescriptorAddressesLexicalSlot ==
    [][(Fetch("CreateUpValue") /\ stack # <<>> /\ heap[Last(stack)].type = "Function")
          => LET f == heap[Last(stack)].fn
                 target == lex[f][CurOp.fr + 1]
             IN  /\ CurOp.fr + 1 <= Len(lex[f])
                 /\ target \in Range(calls)
                 /\ CurOp.n < acts[target].n
                 /\ status' = "running"
                 /\ UpValueIndex(CurOp.fr, CurOp.n) = acts[target].base + CurOp.n
                 /\ Last(lambdas'[f].upvalues) = acts[target].args[CurOp.n + 1]]_vars

\* The lambdas among forms whose Lambda opcode goes into the table the forms
\* are emitted into, in emission order (lambda bodies are not entered).
RECURSIVE LevelLambdas(_)

LevelLambdas(forms) ==
    IF forms = <<>>
    THEN <<>>
    ELSE (IF Head(forms).kind = "Lambda"
          THEN <<Head(forms)>>
          ELSE LevelLambdas(Head(forms).kids)) \o LevelLambdas(Tail(forms))

\* ops is a table emitted for forms: its Lambda opcodes are those of the
\* lambdas of forms, each followed by the CreateUpValue opcodes of its
\* upvalue list and by no further one, each with a body table that is the
\* code of the lambda's body and one Return, and so on inside the bodies.
RECURSIVE WellEmitted(_, _)

WellEmitted(forms, ops) ==
    LET ls == LevelLambdas(forms)
        idx == {i \in 1..Len(ops) : ops[i].op = "Lambda"}
        at(j) == CHOOSE i \in idx : Cardinality({k \in idx : k <= i}) = j
    IN  /\ Cardinality(idx) = Len(ls)
        /\ \A i \in 1..Len(ops) :
              ops[i].op = "CreateUpValue"
                  => i > 1 /\ ops[i - 1].op \in {"Lambda", "CreateUpValue"}
        /\ \A j \in 1..Len(ls) :
              LET L == ls[j]
                  i == at(j)
                  n == Len(L.ups)
                  body == ops[i].body
              IN  /\ ops[i].ar = L.ar
                  /\ i + n <= Len(ops)
                  /\ \A u \in 1..n :
                        /\ ops[i + u].op = "CreateUpValue"
                        /\ ops[i + u].fr = L.ups[u].frame
                        /\ ops[i + u].n = L.ups[u].index
                  /\ (i + n < Len(ops) => ops[i + n + 1].op # "CreateUpValue")
                  /\ body # <<>>
                  /\ Last(body).op = "Return"
                  /\ Front(body) = compile_each(L.kids, NewTable).ops
                  /\ \A k \in 1..(Len(body) - 1) : body[k].op # "Return"
                  /\ WellEmitted(L.kids, body)

\* C11: for every IL lambda with upvalue list U the emitter appends one Lambda
\* opcode followed immediately by exactly |U| CreateUpValue opcodes in the
\* order of U, and the body table ends with exactly one Return after the
\* body's opcodes.
C11_LambdaThenUpValues ==
    (prog.name = "il" /\ ~table.panic) => WellEmitted(prog.il, table.ops)

\* (lambda (a) (lambda (b) (lambda (c) a))) has been emitted: the innermost
\* Lambda is followed by its two descriptors, {1, 0} then {0, 0}.
C11_Witness ==
    /\ status = "emitted"
    /\ prog.il = <<IlPass>>
    /\ Len(table.ops[1].body[1].body) = 4
    /\ table.ops[1].body[1].body[2].fr = 1
    /\ table.ops[1].body[1].body[3].fr = 0
    /\ table.ops[1].body[1].body[4].op = "Return"

CodeLen(il) == Len(compile(il, NewTable).ops)

\* Where the code of every if among forms lies in the table the forms are
\* emitted into from offset base on: start, the first instruction of the then
\* body (t0), of the else body (e0), and the first one after the else body.
RECURSIVE IfRegions(_, _)

IfRegions(forms, base) ==
    IF forms = <<>>
    THEN {}
    ELSE LET f == Head(forms)
             p == CodeLen(f.kids[1])
             t == CodeLen(f.kids[2])
             e == CodeLen(f.kids[3])
         IN  (CASE f.kind = "If" ->
                      {[pred |-> f.kids[1], start |-> base, t0 |-> base + p + 1,
                        e0 |-> base + p + t + 2, end |-> base + p + t + e + 2]}
                          \cup IfRegions(<<f.kids[1]>>, base)
                          \cup IfRegions(<<f.kids[2]>>, base + p + 1)
                          \cup IfRegions(<<f.kids[3]>>, base + p + t + 2)
                [] f.kind = "Lambda" -> {}
                [] OTHER -> IfRegions(f.kids, base))
                 \cup IfRegions(Tail(forms), base + CodeLen(f))

\* What a predicate built of true, nil and if yields.
RECURSIVE Truth(_)

Truth(il) ==
    CASE il.kind = "Bool" -> il.n = 1
      [] il.kind = "Nil" -> FALSE
      [] il.kind = "If" -> IF Truth(il.kids[1]) THEN Truth(il.kids[2]) ELSE Truth(il.kids[3])

Ran(from, to) == \E q \in DOMAIN seen : from <= q /\ q < to

\* C12: the code emitted for (if P T E) runs P, then T when P yields true and
\* E when P yields nil, never both, and goes on at the first instruction
\* after E's code with one more value on the stack than before the if, for
\* bodies of any length and for nested ifs.
C12_IfRunsOneBranch ==
    (prog.name = "il" /\ status \in {"running", "ok", "err"})
        => \A r \in IfRegions(prog.il, 0) :
              /\ ~(Ran(r.t0, r.e0) /\ Ran(r.e0, r.end))
              /\ Ran(r.t0, r.e0) => (r.start \in DOMAIN seen /\ Truth(r.pred))
              /\ Ran(r.e0, r.end) => (r.start \in DOMAIN seen /\ ~Truth(r.pred))
              /\ (status = "running" /\ current_function = 0 /\ r.start \in DOMAIN seen
                    /\ pc >= r.end)
                    => /\ Ran(r.t0, r.e0) \/ Ran(r.e0, r.end)
                       /\ pc > r.end => r.end \in DOMAIN seen
                       /\ (pc = r.end /\ r.end \notin DOMAIN seen)
                             => Len(stack) = seen[r.start] + 1
              /\ (r.start \in DOMAIN seen /\ r.end \in DOMAIN seen)
                    => seen[r.end] = seen[r.start] + 1

\* (+ 5 (if nil (list 1 2 3) 200)) has run its else body only and stands at
\* the Add that follows the if, with 5 and 200 on the stack.
C12_Witness ==
    /\ prog.il = <<IlArith("Add", IlInt(5), IlIf(IlNil, IlList(<<IlInt(1), IlInt(2), IlInt(3)>>), IlInt(200))), IlInt(0)>>
    /\ status = "running"
    /\ pc = 9
    /\ Len(stack) = 2
    /\ heap[stack[2]] = IntObj(200)
    /\ ~Ran(3, 8)
    /\ CurOp.op = "Add"

\* Cell c holds the value the constant, list or lambda form v evaluates to.
RECURSIVE Denotes(_, _)

RECURSIVE DenotesList(_, _)

DenotesList(c, vs) ==
    IF vs = <<>>
    THEN heap[c] = NilObj
    ELSE /\ heap[c].type = "Cons"
         /\ Denotes(heap[c].car, Head(vs))
         /\ DenotesList(heap[c].cdr, Tail(vs))

Denotes(c, v) ==
    /\ c # 0
    /\ CASE v.kind = "Int" -> heap[c] = IntObj(v.n)
         [] v.kind = "Symbol" -> heap[c] = SymbolObj(v.s)
         [] v.kind = "String" -> heap[c] = StringObj(v.s)
         [] v.kind = "Nil" -> heap[c] = NilObj
         [] v.kind = "Bool" -> heap[c] = TrueObj
         [] v.kind = "List" -> DenotesList(c, v.kids)
         [] v.kind = "Lambda" ->
               /\ heap[c].type = "Function"
               /\ lambdas[heap[c].fn].arity = v.ar
               /\ lambdas[heap[c].fn].opcodes
                     = Append(Link(compile_each(v.kids, NewTable).ops), OpReturn)

\* eval has just returned Ok from the program, entered at its first
\* instruction.
Finishes == status = "running" /\ status' = "ok" /\ entry = 0

\* C13: DefGlobal pops the value, binds the name to it, replacing an existing
\* binding, and pushes nil; the code of (def x v) followed by x returns v as
\* the result of eval and leaves globals[x] = v.
C13_DefThenRefReturnsValue ==
    [][/\ (Fetch("DefGlobal") /\ status' = "running")
            => /\ DOMAIN globals' = DOMAIN globals \cup {constants[CurOp.k].str}
               /\ globals'[constants[CurOp.k].str] = Last(stack)
               /\ \A g \in DOMAIN globals \ {constants[CurOp.k].str} : globals'[g] = globals[g]
               /\ Front(stack') = Front(stack)
               /\ Len(stack') = Len(stack)
               /\ heap'[Last(stack')] = NilObj
       /\ (Finishes /\ prog.il \in DefUnits)
            => /\ result'.kind = "Ok"
               /\ result'.cell = globals["x"]
               /\ Denotes(globals["x"], prog.il[Len(prog.il) - 1].kids[1])]_vars

\* (def x 1) (def x (quote foo)) x has returned the symbol foo, bound to x.
C13_Witness ==
    /\ status = "ok"
    /\ prog.il = <<IlDef("x", IlInt(1)), IlDef("x", IlSymbol("foo")), IlGlobal("x")>>
    /\ result.cell = globals["x"]
    /\ heap[globals["x"]] = SymbolObj("foo")

\* C14: at the top level with pc at the end of the slice eval returns the top
\* of the stack, none when the stack is empty, and leaves the stack empty,
\* pc = 0 and bp = 0 with no function and no frame, globals preserved, so that
\* the next eval on the Vm is entered in that clean state.
C14_EvalEndLeavesCleanVm ==
    [][/\ (Running /\ current_function = 0 /\ pc >= Len(opcodes))
            => /\ status' = "ok"
               /\ result' = OkResult(IF stack = <<>> THEN 0 ELSE Last(stack))
               /\ stack' = <<>>
               /\ pc' = 0
               /\ bp' = 0
               /\ frames' = <<>>
               /\ current_function' = 0
               /\ globals' = globals
               /\ constants' = constants
       /\ (status = "ok" /\ status' = "running")
            => /\ stack' = <<>>
               /\ pc' = 0
               /\ bp' = 0
               /\ frames' = <<>>
               /\ current_function' = 0
               /\ entry' = 0
               /\ globals' = globals]_vars

\* A second eval on the Vm has returned the 42 the first one bound to x.
C14_Witness ==
    /\ status = "ok"
    /\ evals = 2
    /\ prog.name = "getx"
    /\ entry = 0
    /\ stack = <<>>
    /\ result.cell = globals["x"]
    /\ heap[result.cell] = IntObj(42)

\* C15: Cons builds the pair of the value pushed first and the value pushed
\* second; Car and Cdr pop a pair and push its first and its second cell, so
\* (car (cons v lst)) is v and (cdr (cons v lst)) is lst.
C15_CarCdrOfCons ==
    [][/\ (Fetch("Cons") /\ status' = "running")
            => /\ Len(stack') = Len(stack) - 1
               /\ heap'[Last(stack')] = ConsObj(stack[Len(stack) - 1], stack[Len(stack)])
       /\ (Fetch("Car") /\ status' = "running")
            => stack' = Append(Front(stack), heap[Last(stack)].car)
       /\ (Fetch("Cdr") /\ status' = "running")
            => stack' = Append(Front(stack), heap[Last(stack)].cdr)
       /\ (Finishes /\ prog.name = "conscar" /\ last.op = "Car")
            => Denotes(result'.cell, prog.il[1])
       /\ (Finishes /\ prog.name = "conscar" /\ last.op = "Cdr")
            => Denotes(result'.cell, prog.il[2])]_vars

\* (cdr (cons (quote foo) (list 1 2))) has returned the list (1 2).
C15_Witness ==
    /\ status = "ok"
    /\ prog = ConsProg("Cdr", IlSymbol("foo"), IlList(<<IlInt(1), IlInt(2)>>))
    /\ heap[result.cell].type = "Cons"
    /\ heap[heap[result.cell].car] = IntObj(1)
    /\ heap[heap[heap[result.cell].cdr].car] = IntObj(2)

\* C16: Assert pops the top of the stack; it goes on when the value is true
\* and returns the assertion-failed error for every other value, nil
\* included; the code of (assert (int? (quote foo))) ends in that error and
\* the code of (assert (cons? (cons 1 2))) returns Ok.
C16_AssertOnlyTruePasses ==
    [][/\ (Fetch("Assert") /\ stack # <<>>)
            => /\ stack' = Front(stack)
               /\ IF heap[Last(stack)] = TrueObj
                  THEN status' = "running" /\ pc' = pc + 1
                  ELSE status' = "err" /\ result' = AssertError
       /\ (status = "running" /\ status' # "running" /\ entry = 0 /\ prog.name = "err_assert")
            => status' = "err" /\ result'.kind = "Assert"
       /\ (status = "running" /\ status' # "running" /\ entry = 0 /\ prog.name = "ok_assert")
            => status' = "ok"]_vars

\* (assert nil) has ended in the assertion-failed error, the nil popped.
C16_Witness ==
    /\ prog = AssertProg(IlNil)
    /\ status = "err"
    /\ result = AssertError
    /\ stack = <<>>

\* ---------------------------------------------------- properties: lowering

\* A step that lowers one top-level form.
Lowering == lowers' = lowers + 1

NonEmptyList(sx) == sx.kind = "List" /\ sx.kids # <<>>

HeadSymbol(sx) == NonEmptyList(sx) /\ sx.kids[1].kind = "Symbol"

HeadOf(sx) == sx.kids[1].s

\* The node each built-in form produces.
Produces(head) ==
    CASE head = "module" -> "Module"
      [] head = "require" -> "Require"
      [] head = "eval-when-compile" -> "EvalWhenCompile"
      [] head = "defmacro" -> "DefMacro"
      [] head = "lambda" -> "Lambda"
      [] head = "def" -> "Def"
      [] head = "decl" -> "Decl"
      [] head = "set!" -> "Set"
      [] head = "if" -> "If"
      [] head = "apply" -> "Apply"
      [] head \in {"+", "-", "*", "/"} -> "BinaryArithemticOperation"
      [] head \in {"=", "<", ">"} -> "ComparisonOperation"
      [] head = "list" -> "List"
      [] head = "cons" -> "Cons"
      [] head = "car" -> "Car"
      [] head = "cdr" -> "Cdr"
      [] head \in TypePredicates -> "IsType"
      [] head = "quote" -> "Quote"
      [] head = "assert" -> "Assert"
      [] head = "map-create" -> "MapCreate"
      [] head = "map-insert!" -> "MapInsert"
      [] head = "map-retrieve" -> "MapRetrieve"
      [] head = "map-items" -> "MapItems"
      [] head = "export" -> "Export"

\* A quoted value and an S-expression have the same variant, atom and
\* elements at every depth.
RECURSIVE SameShape(_, _)

SameShape(q, sx) ==
    /\ q.kind = sx.kind
    /\ q.s = sx.s
    /\ q.n = sx.n
    /\ Len(q.list) = Len(sx.kids)
    /\ \A i \in 1..Len(sx.kids) : SameShape(q.list[i], sx.kids[i])

\* The S-expressions inside an S-expression, itself included.
RECURSIVE Inside(_)

Inside(sx) == {sx} \cup UNION {Inside(sx.kids[i]) : i \in 1..Len(sx.kids)}

\* The names of the built-in forms: the heads the inner match of compile has
\* an arm for.
SpecialForms == BUILT_INS \cup TypePredicates

\* C17: a non-empty list is lowered by its head, in this priority: a head
\* that is the name of a built-in form gives that built-in's node or its
\* error, also when a macro of the name is registered; otherwise a head
\* registered by defmacro gives MacroCall with the operands quoted and none
\* of them lowered; otherwise the list gives FnCall with the head and the
\* operands lowered, or the failure of one of them.
C17_DispatchByHead ==
    [][(Lowering /\ NonEmptyList(sexpr')) =>
          IF HeadSymbol(sexpr') /\ HeadOf(sexpr') \in SpecialForms
          THEN /\ lowered'.kind # "Panic"
               /\ lowered'.kind = "Ok" => lowered'.ast.kind = Produces(HeadOf(sexpr'))
               /\ lowered'.kind = "Err" => lowered'.ast = NoAst
          ELSE IF HeadSymbol(sexpr') /\ HeadOf(sexpr') \in macros
          THEN /\ lowered'.kind = "Ok"
               /\ lowered'.ast.kind = "MacroCall"
               /\ lowered'.ast.s = HeadOf(sexpr')
               /\ lowered'.ast.kids = <<>>
               /\ Len(lowered'.ast.quoted) = Len(sexpr'.kids) - 1
               /\ \A i \in 1..Len(lowered'.ast.quoted) :
                     SameShape(lowered'.ast.quoted[i], sexpr'.kids[i + 1])
               /\ macros' = macros
          ELSE /\ lowered'.kind = "Ok" =>
                     /\ lowered'.ast.kind = "FnCall"
                     /\ Len(lowered'.ast.kids) = Len(sexpr'.kids)
                     /\ \A i \in 1..Len(sexpr'.kids) :
                           lowered'.ast.kids[i].source = sexpr'.kids[i]
               /\ lowered'.kind = "Err" => lowered'.sexpr \in Inside(sexpr') \ {sexpr'}
               /\ lowered'.kind = "Panic" => SxList(<<>>) \in Inside(sexpr')]_vars

\* (defmacro N PARAMS BODY...) with N a symbol.
IsDefMacro(sx) ==
    /\ HeadSymbol(sx)
    /\ HeadOf(sx) = "defmacro"
    /\ Len(sx.kids) >= 3
    /\ sx.kids[2].kind = "Symbol"

\* A list headed by one of the given names that are not built-in names.
Names(sx, names) == HeadSymbol(sx) /\ HeadOf(sx) \in names \ BUILT_INS

\* C18: once the compiler has lowered (defmacro N PARAMS BODY...), N is
\* registered and is never removed; a list with head N lowered afterwards,
\* as a later top-level form or in the macro's own body, is a MacroCall of N,
\* and one lowered while N is not registered is a FnCall.  (N not the name
\* of a built-in form, which keeps its built-in lowering.)
C18_DefMacroRegisters ==
    [][Lowering =>
          /\ macros \subseteq macros'
          /\ (IsDefMacro(sexpr') /\ lowered'.kind = "Ok") => sexpr'.kids[2].s \in macros'
          /\ Names(sexpr', macros) =>
                /\ lowered'.kind = "Ok"
                /\ lowered'.ast.kind = "MacroCall"
                /\ lowered'.ast.s = HeadOf(sexpr')
          /\ (HeadSymbol(sexpr') /\ HeadOf(sexpr') \notin macros \cup BUILT_INS
                /\ lowered'.kind = "Ok") => lowered'.ast.kind = "FnCall"
          /\ (IsDefMacro(sexpr') /\ lowered'.kind = "Ok") =>
                \A i \in 1..Len(lowered'.ast.kids) :
                    Names(sexpr'.kids[i + 3], {sexpr'.kids[2].s}) =>
                        /\ lowered'.ast.kids[i].kind = "MacroCall"
                        /\ lowered'.ast.kids[i].s = sexpr'.kids[2].s]_vars

\* (when 1 2) was lowered to MacroCall(when) after when had been registered.
C18_Witness ==
    /\ sexpr = Form("when", <<SxOne, SxTwo>>)
    /\ "when" \in macros
    /\ lowers >= 2
    /\ lowered.kind = "Ok"
    /\ lowered.ast.kind = "MacroCall"
    /\ lowered.ast.s = "when"

\* A parameter: a symbol, or a list of a symbol and a type.
RECURSIVE TypeShape(_)

TypeShape(sx) ==
    \/ sx.kind = "Symbol"
    \/ sx.kind = "List" /\ \A i \in 1..Len(sx.kids) : TypeShape(sx.kids[i])

ParameterShape(sx) ==
    \/ sx.kind = "Symbol"
    \/ sx.kind = "List" /\ Len(sx.kids) = 2 /\ sx.kids[1].kind = "Symbol"
          /\ TypeShape(sx.kids[2])

ParametersShape(sx) ==
    \/ sx.kind = "Nil"
    \/ sx.kind = "List" /\ \A i \in 1..Len(sx.kids) : ParameterShape(sx.kids[i])

\* The required shapes of the built-in forms.
Shaped(sx) ==
    LET head == HeadOf(sx)
        n == Len(sx.kids) - 1
    IN  CASE head \in {"module", "require"} -> n = 1 /\ sx.kids[2].kind = "Symbol"
          [] head \in {"eval-when-compile", "list"} -> TRUE
          [] head = "defmacro" ->
                n >= 2 /\ sx.kids[2].kind = "Symbol" /\ ParametersShape(sx.kids[3])
          [] head = "lambda" ->
                /\ n >= 1
                /\ ParametersShape(sx.kids[2])
                /\ (n >= 3 /\ sx.kids[3] = SxSym("->")) => TypeShape(sx.kids[4])
          [] head \in {"def", "decl"} -> n = 2 /\ ParameterShape(sx.kids[2])
          [] head = "set!" -> n = 2 /\ sx.kids[2].kind = "Symbol"
          [] head \in {"if", "map-insert!"} -> n = 3
          [] head \in {"apply", "+", "-", "*", "/", "=", "<", ">", "cons", "map-retrieve"} ->
                n = 2
          [] head \in {"car", "cdr", "quote", "assert", "map-items"} \cup TypePredicates ->
                n = 1
          [] head = "map-create" -> n = 0
          [] head = "export" ->
                /\ n = 1
                /\ sx.kids[2].kind = "Symbol"
                /\ parse_variable(sx.kids[2].s).kind = "WithoutModule"

\* C19: a list whose head is the name of a built-in form and whose shape is
\* none of the shapes that form requires lowers to an Error that holds that
\* very list and a message; there is no node, so neither a FnCall nor a
\* MacroCall nor a partial AST.
C19_MisshapedBuiltInIsError ==
    (lowers > 0 /\ HeadSymbol(sexpr) /\ HeadOf(sexpr) \in SpecialForms /\ ~Shaped(sexpr)) =>
        /\ lowered.kind = "Err"
        /\ lowered.sexpr = sexpr
        /\ lowered.message # ""
        /\ lowered.ast = NoAst

\* The IsType parameter each type predicate stands for.
PredicateParameter(pred) ==
    CASE pred = "function?" -> "Function"
      [] pred = "cons?" -> "Cons"
      [] pred = "symbol?" -> "Symbol"
      [] pred = "string?" -> "String"
      [] pred = "char?" -> "Char"
      [] pred = "int?" -> "Int"
      [] pred = "bool?" -> "Bool"
      [] pred = "nil?" -> "Nil"

\* C20: for each of the eight type predicates, the one-operand form
\* (PRED? X) lowers to an IsType node with the parameter of that predicate
\* and the lowered X as its body.
C20_PredicateLowersToIsType ==
    (lowers > 0 /\ HeadSymbol(sexpr) /\ HeadOf(sexpr) \in TypePredicates
        /\ Len(sexpr.kids) = 2) =>
        /\ lowered.kind = "Ok"
        /\ lowered.ast.kind = "IsType"
        /\ lowered.ast.s = PredicateParameter(HeadOf(sexpr))
        /\ Len(lowered.ast.kids) = 1
        /\ lowered.ast.kids[1].source = sexpr.kids[2]

\* C21: whatever S-expression compile is given, the empty list and lists with
\* a head that is no symbol among them, it returns a node or an Error that
\* cites an S-expression of the input; it never aborts.
C21_CompileReturns ==
    lowers > 0 =>
        \/ lowered.kind = "Ok" /\ lowered.ast # NoAst
        \/ lowered.kind = "Err" /\ lowered.sexpr \in Inside(sexpr)

\* C22: a list of well-formed parameters parses to Rest(leading, rest)
\* exactly when the name &rest is followed by exactly one last parameter,
\* leading being all the parameters before that &rest; every other list
\* parses to Normal with all its parameters in order.
C22_RestOrNormal ==
    (/\ lowers > 0
     /\ HeadSymbol(sexpr)
     /\ HeadOf(sexpr) = "lambda"
     /\ Len(sexpr.kids) >= 2
     /\ sexpr.kids[2].kind = "List"
     /\ ParametersShape(sexpr.kids[2])
     /\ lowered.kind = "Ok") =>
        LET written == sexpr.kids[2].kids
            n == Len(written)
            all == [i \in 1..n |-> ParameterFromSexpr(written[i])]
        IN  lowered.ast.parameters =
                IF n >= 2 /\ all[n - 1].name = "&rest"
                THEN [kind |-> "Rest", params |-> SubSeq(all, 1, n - 2), rest |-> all[n]]
                ELSE [kind |-> "Normal", params |-> all, rest |-> NoParameter]

\* Where the first "::" of a text starts, 0 when it has none.
FirstSeparator(text) ==
    LET at == {k \in 1..(Len(text) - 1) : text[k] = ":" /\ text[k + 1] = ":"}
    IN  IF at = {} THEN 0 ELSE CHOOSE k \in at : \A j \in at : k <= j

\* C23: a symbol is split at its first "::": with text on both sides it is
\* the variable WithModule of the text before and the text after, otherwise
\* WithoutModule of the whole symbol (so for every symbol without "::",
\* single colons or not).
C23_SplitAtFirstSeparator ==
    (lowers > 0 /\ sexpr.kind = "Symbol" /\ sexpr.s # "") =>
        LET text == Spelling(sexpr.s)
            k == FirstSeparator(text)
        IN  /\ lowered.kind = "Ok"
            /\ lowered.ast.kind = "Variable"
            /\ lowered.ast.variable =
                  IF k > 1 /\ k + 2 <= Len(text)
                  THEN [kind |-> "WithModule", module |-> SubSeq(text, 1, k - 1),
                        name |-> SubSeq(text, k + 2, Len(text))]
                  ELSE [kind |-> "WithoutModule", module |-> <<>>, name |-> text]

\* The operands of a form that are lowered to the children of its node.
LoweredOperands(kind, sx) ==
    CASE kind = "FnCall" -> sx.kids
      [] kind = "DefMacro" -> SubSeq(sx.kids, 4, Len(sx.kids))
      [] kind = "Lambda" ->
            IF Len(sx.kids) >= 4 /\ sx.kids[3] = SxSym("->")
            THEN SubSeq(sx.kids, 5, Len(sx.kids))
            ELSE SubSeq(sx.kids, 3, Len(sx.kids))
      [] kind \in {"Def", "Decl", "Set"} -> <<sx.kids[3]>>
      [] kind \in {"Quote", "MacroCall", "Module", "Require", "Export", "MapCreate",
                   "Variable", "Constant"} -> <<>>
      [] OTHER -> Tail(sx.kids)

\* A node reports the S-expression it was lowered from, and so does every
\* node below it.
RECURSIVE Provenance(_, _)

Provenance(ast, sx) ==
    /\ source_sexpr(ast) = sx
    /\ Len(ast.kids) = Len(LoweredOperands(ast.kind, sx))
    /\ \A i \in 1..Len(ast.kids) : Provenance(ast.kids[i], LoweredOperands(ast.kind, sx)[i])

\* C24: a node returned by compile(s) reports s itself as its source, and
\* each node below it the operand of s it was lowered from, at every depth.
C24_NodesReportTheirSource ==
    (lowers > 0 /\ lowered.kind = "Ok") => Provenance(lowered.ast, sexpr)

\* (f (when 1 2)) was lowered: the call reports the list, its second child
\* the operand (when 1 2).
C24_Witness ==
    /\ sexpr = Form("f", <<Form("when", <<SxOne, SxTwo>>)>>)
    /\ lowered.kind = "Ok"
    /\ lowered.ast.kind = "FnCall"
    /\ source_sexpr(lowered.ast) = sexpr
    /\ source_sexpr(lowered.ast.kids[2]) = sexpr.kids[2]

\* C25: (quote X) lowers to a Quote whose value has the variant, the atom
\* and the elements of X in the same order at every depth; nothing in X is
\* lowered: the node has no children, X may hold ill-formed forms, and a
\* defmacro in X registers nothing.
C25_QuoteIsStructural ==
    [][(Lowering /\ HeadSymbol(sexpr') /\ HeadOf(sexpr') = "quote"
           /\ Len(sexpr'.kids) = 2) =>
          /\ lowered'.kind = "Ok"
          /\ lowered'.ast.kind = "Quote"
          /\ lowered'.ast.kids = <<>>
          /\ Len(lowered'.ast.quoted) = 1
          /\ SameShape(lowered'.ast.quoted[1], sexpr'.kids[2])
          /\ macros' = macros]_vars

\* A quotation of nested lists was lowered.
C25_Witness ==
    /\ sexpr = Form("quote", <<SxList(<<SxChar("c"), SxBool(TRUE), SxBool(FALSE), SxTwo,
                                        SxList(<<SxList(<<SxX, SxSym("y")>>),
                                                 SxList(<<>>)>>)>>)>>)
    /\ lowered.kind = "Ok"
    /\ lowered.ast.kind = "Quote"
    /\ Len(lowered.ast.quoted[1].list) = 5

\* ------------------------------------------------------- properties: Vm, 2

\* C26: once a pair exists (built by Cons or List), no later step changes
\* what Car and Cdr read from it: the pair keeps its two cells and the cells
\* keep their values, whatever SetLocal, SetUpValue or SetGlobal does to the
\* variables whose values were put into it.
C26_PairsNeverChange ==
    [][\A c \in 1..Len(heap) :
          heap[c].type = "Cons" =>
              /\ c <= Len(heap')
              /\ heap'[c] = heap[c]
              /\ heap'[heap[c].car] = heap[heap[c].car]
              /\ heap'[heap[c].cdr] = heap[heap[c].cdr]]_vars

\* C27: Branch(k) pops the top of the stack; on nil the pc goes k past the
\* already incremented pc and the loop goes on, on true the pc is only
\* incremented, and on any other value eval returns the type error that
\* expected a predicate and names the type it got.
C27_BranchOnNilTrueOrError ==
    [][(Fetch("Branch") /\ stack # <<>>) =>
          LET p == heap[Last(stack)]
          IN  /\ stack' = Front(stack)
              /\ p.type = "Nil" => (pc' = pc + 1 + CurOp.n /\ status' = "running")
              /\ p.type = "True" => (pc' = pc + 1 /\ status' = "running")
              /\ p.type \notin {"Nil", "True"} =>
                    /\ status' = "err"
                    /\ result' = TypeError("Predicate", TypeOf(p))]_vars

\* Branch met a value that is neither nil nor true and eval returned the
\* type error.
C27_Witness ==
    /\ last.op = "Branch"
    /\ status = "err"
    /\ result.kind = "Type"
    /\ result.expected = "Predicate"
    /\ result.recieved \in {"Int", "Symbol", "Cons", "Function", "String"}

\* C28: Jmp(k) moves the pc by the signed k from the already incremented pc:
\* forward for k >= 0, and backward by |k| for k < 0 when |k| does not exceed
\* the incremented pc; the step does not overflow, so eval goes on.
C28_JmpIsSigned ==
    [][(Fetch("Jmp") /\ pc + 1 + CurOp.n >= 0) =>
          (pc' = pc + 1 + CurOp.n /\ status' = "running")]_vars

\* C29: SetGlobal on a name without a binding returns the not-found error
\* naming it and creates no binding; on a bound name it rebinds that name to
\* the value and leaves the value on top of the stack; GetGlobal on a name
\* without a binding returns the not-found error and pushes nothing.
C29_GlobalsMustExist ==
    [][/\ (Fetch("SetGlobal") /\ stack # <<>> /\ HasConstant(CurOp.k, "Symbol")) =>
             LET name == constants[CurOp.k].str
             IN  IF name \in DOMAIN globals
                 THEN /\ globals' = [globals EXCEPT ![name] = Last(stack)]
                      /\ stack' = stack
                      /\ status' = "running"
                 ELSE /\ globals' = globals
                      /\ status' = "err"
                      /\ result' = NotFoundError(name)
       /\ (Fetch("GetGlobal") /\ HasConstant(CurOp.k, "Symbol")) =>
             LET name == constants[CurOp.k].str
             IN  name \notin DOMAIN globals =>
                      /\ globals' = globals
                      /\ stack' = stack
                      /\ status' = "err"
                      /\ result' = NotFoundError(name)]_vars

\* SetGlobal was refused for a name that is still unbound.
C29_Witness ==
    /\ last.op = "SetGlobal"
    /\ status = "err"
    /\ result.kind = "NotFound"
    /\ result.name \notin DOMAIN globals

\* The cells a list holds, in order, when following at most n pairs from
\* cell c of heap h ends at nil; <<0>> when it does not.
RECURSIVE ListCells(_, _, _)
ListCells(h, c, n) ==
    IF h[c].type = "Nil"
    THEN <<>>
    ELSE IF h[c].type = "Cons" /\ n > 0
    THEN LET rest == ListCells(h, h[c].cdr, n - 1)
         IN  IF rest = <<0>> THEN <<0>> ELSE <<h[c].car>> \o rest
    ELSE <<0>>

\* C30: List(n) replaces the top n values of the stack by one proper list:
\* its elements are those n values in the order they were pushed, the first
\* pushed being the car, and it ends in nil; the rest of the stack and every
\* value stay as they were, so the stack is n - 1 shorter, and List(0)
\* pushes nil.
C30_ListInPushOrder ==
    [][(Fetch("List") /\ CurOp.n <= Len(stack)) =>
          /\ status' = "running"
          /\ Len(stack') = Len(stack) - (CurOp.n - 1)
          /\ SubSeq(stack', 1, Len(stack') - 1) = SubSeq(stack, 1, Len(stack) - CurOp.n)
          /\ ListCells(heap', Last(stack'), CurOp.n)
                = SubSeq(stack, Len(stack) - CurOp.n + 1, Len(stack))
          /\ \A c \in 1..Len(heap) : heap'[c] = heap[c]
          /\ CurOp.n = 0 => heap'[Last(stack')] = NilObj]_vars

\* List(3) has built (1 foo nil) from three pushes.
C30_Witness ==
    /\ last.op = "List"
    /\ last.n = 3
    /\ status = "running"
    /\ stack # <<>>
    /\ Len(ListCells(heap, Last(stack), 3)) = 3
    /\ heap[ListCells(heap, Last(stack), 3)[1]] = IntObj(1)
    /\ heap[ListCells(heap, Last(stack), 3)[2]] = SymbolObj("foo")
    /\ heap[ListCells(heap, Last(stack), 3)[3]] = NilObj

\* C31: IsType(t) does not pop: the inspected value stays where it was, one
\* fresh value is pushed on top of it, true when the type of the inspected
\* value is t and nil otherwise, and nothing below the new top changes.
C31_IsTypeInspects ==
    [][(Fetch("IsType") /\ stack # <<>>) =>
          /\ status' = "running"
          /\ Len(stack') = Len(stack) + 1
          /\ SubSeq(stack', 1, Len(stack)) = stack
          /\ \A c \in 1..Len(heap) : heap'[c] = heap[c]
          /\ Last(stack') \notin 1..Len(heap)
          /\ heap'[Last(stack')] = IF TypeOf(heap[Last(stack)]) = CurOp.ty
                                   THEN TrueObj ELSE NilObj]_vars

\* IsType(Cons) has pushed true on top of the pair it inspected.
C31_Witness ==
    /\ last.op = "IsType"
    /\ last.ty = "Cons"
    /\ status = "running"
    /\ Len(stack) >= 2
    /\ heap[Last(stack)] = TrueObj
    /\ heap[stack[Len(stack) - 1]].type = "Cons"

\* ------------------------------------------------- properties: emitter, 2

\* C32: the emitter returns a table for a unit that ends in IsType(k, x) or
\* Assert(x): the code of the forms before it, the code of x, and then
\* IsType(tag(k)) or Assert; the process does not abort.
C32_IsTypeAndAssertAreEmitted ==
    (/\ prog.name = "il"
     /\ evals = 0
     /\ status \in {"emitted", "panic"}
     /\ Last(prog.il).kind \in {"IsType", "Assert"}) =>
        LET form == Last(prog.il)
            operand == compile_each(Front(prog.il) \o form.kids, NewTable)
        IN  /\ status = "emitted"
            /\ ~table.panic
            /\ table.ops = operand.ops \o <<IF form.kind = "IsType"
                                            THEN EmK("IsType", form.s)
                                            ELSE Em0("Assert")>>

\* ------------------------------------------------------- properties: Vm, 3

\* C33: only Call enters a function and only Return leaves one: a Call that
\* goes through pushes exactly one frame and makes the callee the current
\* function, a Return that goes through pops exactly one frame, and every
\* other step (every other opcode, a Call or Return that fails, the caller's
\* steps) leaves frames, current_function and bp as they were.
C33_OnlyCallAndReturnMoveFrames ==
    [][IF Fetch("Call") /\ status' = "running"
       THEN /\ Len(frames') = Len(frames) + 1
            /\ Front(frames') = frames
            /\ current_function' # 0
       ELSE IF Fetch("Return") /\ status' = "running"
       THEN /\ frames # <<>>
            /\ frames' = Front(frames)
       ELSE UNCHANGED <<frames, current_function, bp>>]_vars

\* A Return has left an inner function for the function that called it.
C33_Witness ==
    /\ last.op = "Return"
    /\ status = "running"
    /\ Len(frames) = 1
    /\ current_function # 0

\* C34: GetLocal(i) and GetGlobal(h) push the variable's own cell, not a
\* copy of its value; hence a SetLocal(j) in a callee whose argument slot j
\* holds such a handle stores into that cell, and the caller's local, or the
\* global, reads the stored value from then on.
C34_CalleeStoreReachesCaller ==
    [][/\ (Fetch("GetLocal") /\ LocalSlot(bp, CurOp.n) <= Len(stack)) =>
             /\ stack' = Append(stack, stack[LocalSlot(bp, CurOp.n)])
             /\ heap' = heap
       /\ (/\ Fetch("GetGlobal")
           /\ HasConstant(CurOp.k, "Symbol")
           /\ constants[CurOp.k].str \in DOMAIN globals) =>
             /\ stack' = Append(stack, globals[constants[CurOp.k].str])
             /\ heap' = heap
       /\ (Fetch("SetLocal") /\ frames # <<>> /\ status' = "running") =>
             LET cell == stack[LocalSlot(bp, CurOp.n)]
             IN  /\ \A g \in DOMAIN globals :
                       globals[g] = cell =>
                           (globals'[g] = cell /\ heap'[cell] = heap[Last(stack)])
                 /\ \A slot \in 1..(bp - 1) :
                       stack[slot] = cell =>
                           (stack'[slot] = cell /\ heap'[cell] = heap[Last(stack)])]_vars

\* The caller handed its local 7 to a callee that stored 5 to its parameter,
\* and then read 5 from the local.
C34_Witness ==
    /\ prog.name = "alias_local"
    /\ status = "ok"
    /\ result.kind = "Ok"
    /\ result.cell # 0
    /\ heap[result.cell] = IntObj(5)

\* C35: SetUpValue(i) pops the value and pushes nothing, so the stack is one
\* shorter after it; SetLocal(i), and SetGlobal(h) on a bound name, pop the
\* value and push it back, so the stack is as it was with the value on top.
C35_StoreStackEffects ==
    [][/\ (Fetch("SetUpValue") /\ status' = "running") =>
             (stack # <<>> /\ stack' = Front(stack))
       /\ (Fetch("SetLocal") /\ status' = "running") =>
             (stack # <<>> /\ stack' = stack)
       /\ (Fetch("SetGlobal") /\ status' = "running") =>
             (stack # <<>> /\ stack' = stack)]_vars

\* SetUpValue has stored 9 in the captured cell and only the argument is
\* left in the frame of the function.
C35_Witness ==
    /\ last.op = "SetUpValue"
    /\ status = "running"
    /\ current_function # 0
    /\ Len(stack) = bp + 1
    /\ heap[lambdas[current_function].upvalues[last.n + 1]] = IntObj(9)

\* C36: current_function is absent exactly when frames is empty; the bottom
\* frame saves an absent function and bp 0, and every frame above it saves a
\* present function.
C36_FramesMirrorNesting ==
    /\ (current_function = 0) <=> (frames = <<>>)
    /\ frames # <<>> => (frames[1].function = 0 /\ frames[1].bp = 0)
    /\ \A i \in 2..Len(frames) : frames[i].function # 0

\* A function called from a function is running: two frames are saved.
C36_Witness ==
    /\ status = "running"
    /\ Len(frames) >= 2
    /\ current_function # 0
    /\ frames[2].function # 0

\* C37: while a function is executing bp >= 1; when Call(n) enters a
\* function, the cell right below bp is the closure being called and the n
\* cells from bp on are its arguments, the top n of the caller's stack; so
\* the bp - 1 Return truncates to is never negative.
C37_BaseBelowArguments ==
    /\ [](frames # <<>> => bp >= 1)
    /\ [][(Fetch("Call") /\ status' = "running") =>
             /\ bp' >= 1
             /\ heap'[stack'[bp']].type = "Function"
             /\ heap'[stack'[bp']].fn = current_function'
             /\ Len(stack') = bp' + CurOp.n
             /\ SubSeq(stack', bp' + 1, bp' + CurOp.n)
                   = SubSeq(stack, Len(stack) - CurOp.n + 1, Len(stack))]_vars

\* Call(2) has entered a function: the closure and its two arguments.
C37_Witness ==
    /\ last.op = "Call"
    /\ last.n = 2
    /\ status = "running"
    /\ pc = 0
    /\ bp >= 1
    /\ Len(stack) = bp + 2
    /\ heap[stack[bp]].type = "Function"
    /\ heap[stack[bp]].fn = current_function

\* ------------------------------------------------- properties: lowering, 2

\* C38: the name of a defmacro form is registered before its parameter list
\* and body are lowered: when that lowering returns an Error the name is
\* registered all the same, and a list with a registered head lowered later
\* is a MacroCall of it.  (Heads that are not names of built-in forms.)
C38_FailedDefMacroStaysRegistered ==
    [][Lowering =>
          /\ (IsDefMacro(sexpr') /\ lowered'.kind = "Err") =>
                (sexpr'.kids[2].s \in macros' /\ macros \subseteq macros')
          /\ Names(sexpr', macros) =>
                /\ lowered'.kind = "Ok"
                /\ lowered'.ast.kind = "MacroCall"
                /\ lowered'.ast.s = HeadOf(sexpr')
                /\ macros' = macros]_vars

\* (bad 1 2) was lowered to MacroCall(bad): bad is registered only by
\* (defmacro bad 5 x), whose lowering fails on the parameters.
C38_Witness ==
    /\ sexpr = Form("bad", <<SxOne, SxTwo>>)
    /\ "bad" \in macros
    /\ lowers >= 2
    /\ lowered.kind = "Ok"
    /\ lowered.ast.kind = "MacroCall"
    /\ lowered.ast.s = "bad"

\* ------------------------------------------------- properties: emitter, 3

\* Every Jmp of the table has an offset >= 0 and every Branch and Jmp leads,
\* from the incremented pc, to a place between 0 and the length of the table;
\* likewise in the body tables of its Lambda opcodes.
RECURSIVE TargetsInside(_)
TargetsInside(ops) ==
    \A i \in 1..Len(ops) :
        /\ ops[i].op \in {"Branch", "Jmp"} => (ops[i].n >= 0 /\ i + ops[i].n <= Len(ops))
        /\ ops[i].op = "Lambda" => TargetsInside(ops[i].body)

NoCall(ops) == \A i \in 1..Len(ops) : ops[i].op # "Call"

\* C39: in every table the emitter returns each Jmp offset is >= 0 and each
\* Branch and Jmp target lies between 0 and the length of the table; so
\* when an emitted top-level table without a Call is executed, every
\* instruction moves pc forward, never past the end of the table, and eval
\* comes to an end.
C39_EmittedJumpsGoForward ==
    /\ [](~table.panic => TargetsInside(table.ops))
    /\ [][(/\ prog.name = "il"
           /\ NoCall(opcodes)
           /\ Fetched
           /\ status' # "panic") => (pc' > pc /\ pc' <= Len(opcodes))]_vars
    /\ (Running /\ prog.name = "il" /\ NoCall(opcodes)) ~> ~Running

\* An emitted table with a Branch and a Jmp, and without a Call, was run to
\* its end.
C39_Witness ==
    /\ prog.name = "il"
    /\ status = "ok"
    /\ NoCall(opcodes)
    /\ \E i \in 1..Len(opcodes) : opcodes[i].op = "Branch"
    /\ \E i \in 1..Len(opcodes) : opcodes[i].op = "Jmp" /\ opcodes[i].n > 0

====
